---- MODULE Spec2Model ----
(***************************************************************************)
(* Model of the static code intelligence engine of CodeExplorer:           *)
(*   server/app/services/code_analyzer.py      (CodeAnalyzer)              *)
(*   server/app/services/architecture_service.py (ArchitectureAnalyzer)    *)
(*                                                                         *)
(* Python strings are modelled character by character: a string is a       *)
(* sequence of one-character strings, so that startswith / endswith /      *)
(* substring / split / concatenation are computed as Python computes them. *)
(* A file's content is modelled by what the extractors read from it: the   *)
(* raw import strings, the function declarations and, per declaration,     *)
(* the set of names that occur as `name(` inside its span.                 *)
(***************************************************************************)
EXTENDS Integers, Sequences, FiniteSets, TLC

(***************************************************************************)
(* Bounds of the model                                                     *)
(***************************************************************************)
MaxRuns == 2

(***************************************************************************)
(* Python str / pathlib helpers                                            *)
(***************************************************************************)
Range(s) == {s[i] : i \in 1..Len(s)}

StartsWith(s, p) == Len(p) <= Len(s) /\ SubSeq(s, 1, Len(p)) = p

EndsWith(s, p) == Len(p) <= Len(s) /\ SubSeq(s, Len(s) - Len(p) + 1, Len(s)) = p

\* Python `p in s` for strings
Contains(s, p) == \E i \in 0..(Len(s) - Len(p)) : SubSeq(s, i + 1, i + Len(p)) = p

\* Python s[n:]
Drop(s, n) == SubSeq(s, n + 1, Len(s))

\* Python s.replace('\\', '/')
ReplaceBackslash(s) == [i \in 1..Len(s) |-> IF s[i] = "\\" THEN "/" ELSE s[i]]

\* 1-based index of the last occurrence of character c in s, 0 when absent
LastIndexOf(s, c) ==
    LET Hits == {i \in 1..Len(s) : s[i] = c}
    IN  IF Hits = {} THEN 0 ELSE CHOOSE i \in Hits : \A j \in Hits : j <= i

\* 1-based index of the first occurrence of character c in s, 0 when absent
FirstIndexOf(s, c) ==
    LET Hits == {i \in 1..Len(s) : s[i] = c}
    IN  IF Hits = {} THEN 0 ELSE CHOOSE i \in Hits : \A j \in Hits : i <= j

\* Python s.split('/')
RECURSIVE SplitSlash(_)
SplitSlash(s) ==
    LET i == FirstIndexOf(s, "/")
    IN  IF i = 0 THEN <<s>>
        ELSE <<SubSeq(s, 1, i - 1)>> \o SplitSlash(Drop(s, i))

\* Python '/'.join(parts)
RECURSIVE JoinSlash(_)
JoinSlash(parts) ==
    IF Len(parts) = 0 THEN <<>>
    ELSE IF Len(parts) = 1 THEN parts[1]
    ELSE parts[1] \o <<"/">> \o JoinSlash(Tail(parts))

\* pathlib: Path(p).name
PathName(p) == Drop(p, LastIndexOf(p, "/"))

\* pathlib: str(Path(p).parent) for a relative path; the parent of '.' is '.'
PathParent(p) ==
    LET i == LastIndexOf(p, "/")
    IN  IF i = 0 THEN <<".">> ELSE SubSeq(p, 1, i - 1)

\* pathlib: Path(p).suffix ('' unless the name has a dot that is neither its
\* first nor its last character)
PathSuffix(p) ==
    LET name == PathName(p)
        i    == LastIndexOf(name, ".")
    IN  IF 1 < i /\ i < Len(name) THEN Drop(name, i - 1) ELSE <<>>

\* pathlib: Path(p).stem
PathStem(p) ==
    LET name == PathName(p)
    IN  SubSeq(name, 1, Len(name) - Len(PathSuffix(p)))

\* pathlib: str(Path(p).with_suffix(''))
WithSuffixEmpty(p) == SubSeq(p, 1, Len(p) - Len(PathSuffix(p)))

\* str.lower() on the ASCII letters
LOWER_OF ==
    [A |-> "a", B |-> "b", C |-> "c", D |-> "d", E |-> "e", F |-> "f",
     G |-> "g", H |-> "h", I |-> "i", J |-> "j", K |-> "k", L |-> "l",
     M |-> "m", N |-> "n", O |-> "o", P |-> "p", Q |-> "q", R |-> "r",
     S |-> "s", T |-> "t", U |-> "u", V |-> "v", W |-> "w", X |-> "x",
     Y |-> "y", Z |-> "z"]

\* str.lower() on one character
LowerChar(c) == IF c \in DOMAIN LOWER_OF THEN LOWER_OF[c] ELSE c

\* Python s.lower()
Lower(s) == [i \in 1..Len(s) |-> LowerChar(s[i])]

(***************************************************************************)
(* CodeAnalyzer: class constants                                           *)
(***************************************************************************)
SKIP_DIRS ==
    { <<".", "g", "i", "t">>,
      <<".", "i", "d", "e", "a">>,
      <<".", "m", "y", "p", "y", "_", "c", "a", "c", "h", "e">>,
      <<".", "n", "e", "x", "t">>,
      <<".", "p", "y", "t", "e", "s", "t", "_", "c", "a", "c", "h", "e">>,
      <<".", "v", "e", "n", "v">>,
      <<".", "v", "s", "c", "o", "d", "e">>,
      <<"_", "_", "p", "y", "c", "a", "c", "h", "e", "_", "_">>,
      <<"b", "o", "w", "e", "r", "_", "c", "o", "m", "p", "o", "n", "e", "n", "t", "s">>,
      <<"b", "u", "i", "l", "d">>,
      <<"c", "o", "v", "e", "r", "a", "g", "e">>,
      <<"d", "i", "s", "t">>,
      <<"e", "n", "v">>,
      <<"n", "o", "d", "e", "_", "m", "o", "d", "u", "l", "e", "s">>,
      <<"o", "u", "t">>,
      <<"t", "a", "r", "g", "e", "t">>,
      <<"v", "e", "n", "d", "o", "r">>,
      <<"v", "e", "n", "v">> }

SOURCE_EXTENSIONS ==
    { <<".", "p", "y">>,
      <<".", "j", "s">>,
      <<".", "j", "s", "x">>,
      <<".", "t", "s">>,
      <<".", "t", "s", "x">>,
      <<".", "j", "a", "v", "a">>,
      <<".", "g", "o">>,
      <<".", "r", "s">>,
      <<".", "r", "b">>,
      <<".", "p", "h", "p">>,
      <<".", "c", "s">>,
      <<".", "s", "w", "i", "f", "t">>,
      <<".", "k", "t">>,
      <<".", "s", "c", "a", "l", "a">>,
      <<".", "c">>,
      <<".", "c", "p", "p">>,
      <<".", "h">>,
      <<".", "h", "p", "p">>,
      <<".", "v", "u", "e">>,
      <<".", "s", "v", "e", "l", "t", "e">> }

IGNORE_FILES ==
    { <<".", "d", "s", "_", "s", "t", "o", "r", "e">>,
      <<"c", "a", "r", "g", "o", ".", "l", "o", "c", "k">>,
      <<"c", "o", "m", "p", "o", "s", "e", "r", ".", "l", "o", "c", "k">>,
      <<"g", "e", "m", "f", "i", "l", "e", ".", "l", "o", "c", "k">>,
      <<"p", "a", "c", "k", "a", "g", "e", "-", "l", "o", "c", "k", ".", "j", "s", "o", "n">>,
      <<"p", "n", "p", "m", "-", "l", "o", "c", "k", ".", "y", "a", "m", "l">>,
      <<"p", "o", "e", "t", "r", "y", ".", "l", "o", "c", "k">>,
      <<"t", "h", "u", "m", "b", "s", ".", "d", "b">>,
      <<"y", "a", "r", "n", ".", "l", "o", "c", "k">> }

(***************************************************************************)
(* CodeAnalyzer._build_file_map                                            *)
(* The dict is built by assignments in the order of self.files; a later    *)
(* assignment to the same key replaces the earlier one.                    *)
(***************************************************************************)
DotSlash(s) == <<".", "/">> \o s

\* the keys assigned for one file by the first loop (lines 735-776)
MainKeys(file_path) ==
    LET normalized == ReplaceBackslash(file_path)
        stem       == PathStem(normalized)
        parent     == IF PathParent(normalized) /= <<".">>
                      THEN ReplaceBackslash(PathParent(normalized)) ELSE <<>>
        no_ext     == ReplaceBackslash(WithSuffixEmpty(normalized))
        parts      == SplitSlash(normalized)
        Partial(i) == JoinSlash(SubSeq(parts, i, Len(parts)))
        PartialNoExt(i) == ReplaceBackslash(WithSuffixEmpty(Partial(i)))
    IN  {no_ext, DotSlash(no_ext), <<"/">> \o no_ext,
         normalized, DotSlash(normalized),
         stem, DotSlash(stem)}
        \cup (IF stem \in {<<"i","n","d","e","x">>, <<"_","_","i","n","i","t","_","_">>}
                 /\ parent /= <<>>
              THEN {parent, DotSlash(parent), <<"/">> \o parent}
              ELSE {})
        \cup UNION {{PartialNoExt(i), DotSlash(PartialNoExt(i)),
                     Partial(i), DotSlash(Partial(i))} : i \in 1..Len(parts)}

\* the keys assigned for one file by the alias loop (lines 779-786)
AliasKeys(file_path) ==
    LET normalized == ReplaceBackslash(file_path)
    IN  IF StartsWith(normalized, <<"s","r","c","/">>)
        THEN LET alias_path   == <<"@", "/">> \o Drop(normalized, 4)
                 alias_no_ext == ReplaceBackslash(WithSuffixEmpty(alias_path))
             IN  {alias_path, alias_no_ext}
        ELSE {}

\* Path.with_suffix raises ValueError for a path with an empty name; it is the
\* only operation of _build_file_map and _resolve_import that can raise
WithSuffixRaises(p) == PathName(p) = <<>>

BuildFileMapRaises(order) ==
    \E i \in 1..Len(order) :
        LET normalized == ReplaceBackslash(order[i])
            parts      == SplitSlash(normalized)
        IN  \/ WithSuffixRaises(normalized)
            \/ \E k \in 1..Len(parts) : WithSuffixRaises(JoinSlash(SubSeq(parts, k, Len(parts))))
            \/ /\ StartsWith(normalized, <<"s","r","c","/">>)
               /\ WithSuffixRaises(<<"@", "/">> \o Drop(normalized, 4))

\* file_map[k] = file_path for every k of keys
Assign(file_map, keys, file_path) ==
    [k \in DOMAIN file_map \cup keys |->
        IF k \in keys THEN file_path ELSE file_map[k]]

\* file_map after the first loop (lines 735-776) has visited order[1..n]
RECURSIVE MainLoop(_, _)
MainLoop(order, n) ==
    IF n = 0 THEN <<>>
    ELSE Assign(MainLoop(order, n - 1), MainKeys(order[n]), order[n])

\* file_map after the alias loop (lines 779-786) has visited order[1..n]
RECURSIVE AliasLoop(_, _)
AliasLoop(order, n) ==
    IF n = 0 THEN MainLoop(order, Len(order))
    ELSE Assign(AliasLoop(order, n - 1), AliasKeys(order[n]), order[n])

\* file_map as left by _build_file_map when self.files is in the given order
BuildFileMap(order) == AliasLoop(order, Len(order))

(***************************************************************************)
(* CodeAnalyzer._resolve_import                                            *)
(***************************************************************************)
None == <<>>

EXT_TRIES ==
    << <<>>, <<".", "t", "s">>, <<".", "t", "s", "x">>, <<".", "j", "s">>, <<".", "j", "s", "x">>, <<".", "p", "y">>, <<".", "j", "a", "v", "a">>, <<".", "g", "o">> >>

INDEX_TRIES ==
    << <<"/", "i", "n", "d", "e", "x", ".", "t", "s">>,
       <<"/", "i", "n", "d", "e", "x", ".", "t", "s", "x">>,
       <<"/", "i", "n", "d", "e", "x", ".", "j", "s">>,
       <<"/", "i", "n", "d", "e", "x", ".", "j", "s", "x">>,
       <<"/", "i", "n", "d", "e", "x", ".", "p", "y">>,
       <<"/", "_", "_", "i", "n", "i", "t", "_", "_", ".", "p", "y">> >>

\* lines 818-823: walk up one directory per leading '../'
RECURSIVE StripParents(_, _)
StripParents(current_dir, clean_imp) ==
    IF StartsWith(clean_imp, <<".", ".", "/">>)
    THEN StripParents(PathParent(current_dir), Drop(clean_imp, 3))
    ELSE IF current_dir /= <<".">>
         THEN ReplaceBackslash(current_dir) \o <<"/">> \o clean_imp
         ELSE clean_imp

\* lines 805-825: the cleaned import string
CleanImport(imp, current_file) ==
    LET clean_imp == ReplaceBackslash(imp)
    IN  IF StartsWith(clean_imp, <<".", "/">>)
        THEN LET current_dir == ReplaceBackslash(PathParent(current_file))
             IN  IF current_dir = <<".">> THEN Drop(clean_imp, 2)
                 ELSE current_dir \o <<"/">> \o Drop(clean_imp, 2)
        ELSE IF StartsWith(clean_imp, <<".", ".", "/">>)
        THEN StripParents(PathParent(current_file), clean_imp)
        ELSE IF StartsWith(clean_imp, <<"/">>)
        THEN Drop(clean_imp, 1)
        ELSE clean_imp

\* first element of tries whose concatenation to base is a key, 0 if none
FirstHit(base, tries, file_map) ==
    LET H == {i \in 1..Len(tries) : (base \o tries[i]) \in DOMAIN file_map}
    IN  IF H = {} THEN 0 ELSE CHOOSE i \in H : \A j \in H : i <= j

\* the file an import resolves to, or None for an external package
ResolveImport(imp, current_file, file_map) ==
    IF StartsWith(imp, <<"@">>) /\ "/" \in Range(imp) THEN None
    ELSE LET clean_imp == CleanImport(imp, current_file)
             e == FirstHit(clean_imp, EXT_TRIES, file_map)
             x == FirstHit(clean_imp, INDEX_TRIES, file_map)
         IN  IF clean_imp \in DOMAIN file_map THEN file_map[clean_imp]
             ELSE IF e /= 0 THEN file_map[clean_imp \o EXT_TRIES[e]]
             ELSE IF x /= 0 THEN file_map[clean_imp \o INDEX_TRIES[x]]
             ELSE IF imp \in DOMAIN file_map THEN file_map[imp]
             ELSE None

(***************************************************************************)
(* The file tree under analysis                                            *)
(*                                                                         *)
(* A file on disk is a record                                              *)
(*   path    : its repository-relative path                                *)
(*   imports : the raw import strings its extractor reads from it          *)
(*   decls   : its function declarations in source order, each with        *)
(*               name   : the declared name                                *)
(*               listed : whether the per-file extractor reports the name  *)
(*                        (its 'functions' list); the call scanners use    *)
(*                        other patterns and also find unlisted ones       *)
(*               calls  : the names n occurring as `n(` inside the span    *)
(*                        the call scanner cuts out for the declaration    *)
(*                        (for Python: the names of the ast.Call nodes)    *)
(*   classes   : the class names its extractor reads from it               *)
(*   main_text : whether it holds the text of a main block or function     *)
(*   lines, size : its number of lines and of bytes                        *)
(*   readable  : whether open() and read() on it succeed                   *)
(*   parses    : whether ast.parse accepts it (Python files)               *)
(***************************************************************************)
MaxResolverFiles == 3
MaxCallFiles == 5

ResolverUniverse ==
    { [path |-> <<"a", "/", "f", ".", "t", "s">>,
       imports |-> <<<<".", "/", "b">>, <<".", ".", "/", "l", "i", "b">>, <<"r", "e", "a", "c", "t">>, <<"@", "t", "y", "p", "e", "s", "/", "n", "o", "d", "e">>, <<"@", "/", "u">>>>,
       decls |-> <<>>,
       classes |-> <<>>, main_text |-> FALSE,
       lines |-> 5, size |-> 123, readable |-> TRUE, parses |-> TRUE],
      [path |-> <<"a", "/", "b", ".", "t", "s">>,
       imports |-> <<<<".", "/", "f">>, <<"b">>>>,
       decls |-> <<>>,
       classes |-> <<>>, main_text |-> FALSE,
       lines |-> 2, size |-> 42, readable |-> TRUE, parses |-> TRUE],
      [path |-> <<"x", "/", "a", "/", "b", ".", "t", "s">>,
       imports |-> <<<<".", ".", "/", ".", ".", "/", "l", "i", "b", "/", "i", "n", "d", "e", "x">>>>,
       decls |-> <<>>,
       classes |-> <<>>, main_text |-> FALSE,
       lines |-> 1, size |-> 34, readable |-> TRUE, parses |-> TRUE],
      [path |-> <<"l", "i", "b", "/", "i", "n", "d", "e", "x", ".", "t", "s">>,
       imports |-> <<<<".", ".", "/", "a", "/", "b", ".", "t", "s">>, <<".", "/", "n", "o", "p", "e">>>>,
       decls |-> <<>>,
       classes |-> <<>>, main_text |-> FALSE,
       lines |-> 2, size |-> 53, readable |-> TRUE, parses |-> TRUE],
      [path |-> <<"s", "r", "c", "/", "u", ".", "t", "s">>,
       imports |-> <<<<"/", "a", "/", "f">>>>,
       decls |-> <<>>,
       classes |-> <<>>, main_text |-> FALSE,
       lines |-> 1, size |-> 23, readable |-> TRUE, parses |-> TRUE],
      [path |-> <<"d", "i", "s", "t", "/", "b", ".", "t", "s">>,
       imports |-> <<<<".", "/", "b">>>>,
       decls |-> <<>>,
       classes |-> <<>>, main_text |-> FALSE,
       lines |-> 1, size |-> 22, readable |-> TRUE, parses |-> TRUE] }

CallUniverse ==
    { [path |-> <<"h", ".", "j", "s">>,
       imports |-> <<<<".", "/", "q">>>>,
       decls |-> <<[name |-> <<"g", "u">>, listed |-> TRUE, calls |-> {<<"f", "u">>, <<"g", "u">>}]>>,
       classes |-> <<>>, main_text |-> FALSE,
       lines |-> 5, size |-> 62, readable |-> TRUE, parses |-> TRUE],
      [path |-> <<"q", ".", "j", "s">>,
       imports |-> <<>>,
       decls |-> <<[name |-> <<"f", "u">>, listed |-> TRUE, calls |-> {<<"f", "u">>}]>>,
       classes |-> <<>>, main_text |-> FALSE,
       lines |-> 3, size |-> 31, readable |-> TRUE, parses |-> TRUE],
      [path |-> <<"r", ".", "j", "s">>,
       imports |-> <<<<".", "/", "q">>>>,
       decls |-> <<[name |-> <<"f", "u">>, listed |-> TRUE, calls |-> {<<"f", "u">>}], [name |-> <<"r", "u">>, listed |-> TRUE, calls |-> {<<"f", "u">>, <<"g">>, <<"r", "u">>}]>>,
       classes |-> <<>>, main_text |-> FALSE,
       lines |-> 9, size |-> 101, readable |-> TRUE, parses |-> TRUE],
      [path |-> <<"s", ".", "p", "y">>,
       imports |-> <<>>,
       decls |-> <<[name |-> <<"f", "u">>, listed |-> TRUE, calls |-> {<<"f", "u">>, <<"g">>}], [name |-> <<"g">>, listed |-> TRUE, calls |-> {<<"g">>, <<"f", "u">>}]>>,
       classes |-> <<>>, main_text |-> FALSE,
       lines |-> 8, size |-> 85, readable |-> TRUE, parses |-> TRUE],
      [path |-> <<"t", ".", "g", "o">>,
       imports |-> <<>>,
       decls |-> <<[name |-> <<"t", "t">>, listed |-> TRUE, calls |-> {<<"f", "u">>, <<"t", "t">>}]>>,
       classes |-> <<>>, main_text |-> FALSE,
       lines |-> 4, size |-> 35, readable |-> TRUE, parses |-> TRUE],
      [path |-> <<"u", ".", "j", "a", "v", "a">>,
       imports |-> <<>>,
       decls |-> <<[name |-> <<"f", "u">>, listed |-> TRUE, calls |-> {<<"f", "u">>}], [name |-> <<"f", "u">>, listed |-> TRUE, calls |-> {<<"t", "t">>}]>>,
       classes |-> <<<<"U">>>>, main_text |-> FALSE,
       lines |-> 10, size |-> 120, readable |-> TRUE, parses |-> TRUE] }

Paths(T) == {f.path : f \in T}

FileAt(T, p) == CHOOSE f \in T : f.path = p

(***************************************************************************)
(* os.walk (top-down): the files of a directory are listed before the      *)
(* files of its sub-directories, each sub-directory's tree is listed in    *)
(* one piece, and the order inside one directory is the file system's.     *)
(***************************************************************************)
\* the directory segments of a path
DirSegs(p) == LET parts == SplitSlash(p) IN SubSeq(parts, 1, Len(parts) - 1)

IsPrefix(d, s) == Len(d) <= Len(s) /\ SubSeq(s, 1, Len(d)) = d

IsWalkOrder(s) ==
    /\ \A i, j \in 1..Len(s) : i < j =>
          \* a file directly in a directory D precedes the files below D
          ~ (IsPrefix(DirSegs(s[j]), DirSegs(s[i])) /\ DirSegs(s[j]) /= DirSegs(s[i]))
    /\ \A i, j, k \in 1..Len(s) : (i < j /\ j < k) =>
          \A n \in 1..Len(DirSegs(s[i])) :
             LET D == SubSeq(DirSegs(s[i]), 1, n)
             IN  IsPrefix(D, DirSegs(s[k])) => IsPrefix(D, DirSegs(s[j]))

WalkOrders(P) ==
    {s \in [1..Cardinality(P) -> P] :
        (\A i, j \in 1..Cardinality(P) : i /= j => s[i] /= s[j]) /\ IsWalkOrder(s)}

\* _get_source_files (lines 142-155): prune SKIP_DIRS, keep source extensions
IsSourceFile(p) ==
    /\ \A i \in 1..Len(DirSegs(p)) : DirSegs(p)[i] \notin SKIP_DIRS
    /\ Lower(PathName(p)) \notin IGNORE_FILES
    /\ Lower(PathSuffix(p)) \in SOURCE_EXTENSIONS

GetSourceFiles(order) == SelectSeq(order, IsSourceFile)

(***************************************************************************)
(* CodeAnalyzer._analyze_file                                              *)
(***************************************************************************)
EXT_PY   == <<".", "p", "y">>
EXT_JS   == {<<".", "j", "s">>, <<".", "j", "s", "x">>, <<".", "t", "s">>, <<".", "t", "s", "x">>}
EXT_JAVA == <<".", "j", "a", "v", "a">>
EXT_GO   == <<".", "g", "o">>

HasExtractor(ext) == ext = EXT_PY \/ ext \in EXT_JS \/ ext = EXT_JAVA \/ ext = EXT_GO

\* the names of the listed declarations, in source order
ListedNames(decls) ==
    LET IsListed(d) == d.listed
        L == SelectSeq(decls, IsListed)
    IN  [i \in 1..Len(L) |-> L[i].name]

\* AnalyzeFileMeta computing has_main outside the try of _analyze_python
AnalyzeFileMeta_MainOutsideTry(rec) ==
    LET ext == Lower(PathSuffix(rec.path))
        extracted == HasExtractor(ext) /\ (ext = EXT_PY => rec.parses)
    IN  [path      |-> rec.path,
         extension |-> ext,
         lines     |-> rec.lines,
         size      |-> rec.size,
         imports   |-> IF extracted THEN rec.imports ELSE <<>>,
         functions |-> IF extracted THEN ListedNames(rec.decls) ELSE <<>>,
         classes   |-> IF extracted THEN rec.classes ELSE <<>>,
         has_main  |-> HasExtractor(ext) /\ rec.main_text]

\* the meta record of one file whose bytes were read (lines 164-193); the
\* except clause of _analyze_python (lines 219-220) empties the structural
\* fields of a Python file that ast.parse rejects
AnalyzeFileMeta(rec) ==
    LET ext == Lower(PathSuffix(rec.path))
        extracted == HasExtractor(ext) /\ (ext = EXT_PY => rec.parses)
    IN  [path      |-> rec.path,
         extension |-> ext,
         lines     |-> rec.lines,
         size      |-> rec.size,
         imports   |-> IF extracted THEN rec.imports ELSE <<>>,
         functions |-> IF extracted THEN ListedNames(rec.decls) ELSE <<>>,
         classes   |-> IF extracted THEN rec.classes ELSE <<>>,
         has_main  |-> extracted /\ rec.main_text]

\* AnalyzeFileOutcome without the except clause of lines 194-195
AnalyzeFileOutcome_NoExcept(rec) == IF rec.readable THEN "meta" ELSE "raise"

\* what _analyze_file hands back (lines 162-195): a meta record, or None
\* when read_text raised
AnalyzeFileOutcome(rec) == IF rec.readable THEN "meta" ELSE "none"

(***************************************************************************)
(* CodeAnalyzer._build_file_dependencies                                   *)
(***************************************************************************)
\* `if x not in lst: lst.append(x)` applied to every element of s in order
RECURSIVE Dedup(_)
Dedup(s) ==
    IF s = <<>> THEN <<>>
    ELSE LET front == Dedup(SubSeq(s, 1, Len(s) - 1))
             x     == s[Len(s)]
         IN  IF x \in Range(front) THEN front ELSE Append(front, x)

\* FileDeps keeping as external only the unresolved imports that do not
\* look like a path
FileDeps_DropRelative(meta, file_map) ==
    LET imps == meta.imports
        target == [i \in 1..Len(imps) |-> ResolveImport(imps[i], meta.path, file_map)]
        Hit(i)  == target[i] /= None
        Idx     == [i \in 1..Len(imps) |-> i]
        HitIdx  == SelectSeq(Idx, Hit)
        MissIdx == SelectSeq(Idx, LAMBDA i : ~Hit(i) /\ ~StartsWith(imps[i], <<".">>))
    IN  [imports  |-> imps,
         resolved |-> Dedup([k \in 1..Len(HitIdx) |-> target[HitIdx[k]]]),
         external |-> Dedup([k \in 1..Len(MissIdx) |-> imps[MissIdx[k]]])]

\* the deps record of one file (lines 706-724)
FileDeps(meta, file_map) ==
    LET imps == meta.imports
        target == [i \in 1..Len(imps) |-> ResolveImport(imps[i], meta.path, file_map)]
        Hit(i)  == target[i] /= None
        Idx     == [i \in 1..Len(imps) |-> i]
        HitIdx  == SelectSeq(Idx, Hit)
        MissIdx == SelectSeq(Idx, LAMBDA i : ~Hit(i))
    IN  [imports  |-> imps,
         resolved |-> Dedup([k \in 1..Len(HitIdx) |-> target[HitIdx[k]]]),
         external |-> Dedup([k \in 1..Len(MissIdx) |-> imps[MissIdx[k]]])]

FilePaths(fs) == [i \in 1..Len(fs) |-> fs[i].path]

\* _build_file_dependencies resolving each file as soon as it is extracted,
\* against the keys of the files extracted so far
BuildFileDependencies_Streaming(fs) ==
    [p \in Range(FilePaths(fs)) |->
        LET i == CHOOSE i \in 1..Len(fs) : fs[i].path = p
        IN  FileDeps(fs[i], BuildFileMap(SubSeq(FilePaths(fs), 1, i)))]

\* _build_file_dependencies (lines 696-726): the whole file_map is built
\* from self.files (line 699) before the first import is resolved
BuildFileDependencies(fs) ==
    LET file_map == BuildFileMap(FilePaths(fs))
    IN  [p \in Range(FilePaths(fs)) |->
            FileDeps(fs[CHOOSE i \in 1..Len(fs) : fs[i].path = p], file_map)]

(***************************************************************************)
(* CodeAnalyzer._build_call_graph                                          *)
(***************************************************************************)
\* f"{file_path}::{func_name}"
QualifiedId(file_path, func_name) == file_path \o <<":", ":">> \o func_name

\* c.split('::')[0]
BeforeSep(c) ==
    LET H == {i \in 1..(Len(c) - 1) : c[i] = ":" /\ c[i + 1] = ":"}
    IN  IF H = {} THEN c
        ELSE SubSeq(c, 1, (CHOOSE i \in H : \A j \in H : i <= j) - 1)

\* _resolve_call looking at the imported files before the caller's own file
ResolveCall_ImportedFirst(func_name, current_file, func_registry, resolved_deps) ==
    LET candidates == IF func_name \in DOMAIN func_registry
                      THEN func_registry[func_name] ELSE <<>>
        InSameFile(c) == StartsWith(c, current_file \o <<":", ":">>)
        IsImported(c) == BeforeSep(c) \in resolved_deps
        same_file        == SelectSeq(candidates, InSameFile)
        imported_matches == SelectSeq(candidates, IsImported)
    IN  IF candidates = <<>> THEN <<>>
        ELSE IF imported_matches /= <<>> THEN imported_matches
        ELSE IF same_file /= <<>> THEN same_file
        ELSE SubSeq(candidates, 1, IF Len(candidates) < 3 THEN Len(candidates) ELSE 3)

\* _resolve_call without the imported-files step
ResolveCall_NoImportStep(func_name, current_file, func_registry, resolved_deps) ==
    LET candidates == IF func_name \in DOMAIN func_registry
                      THEN func_registry[func_name] ELSE <<>>
        InSameFile(c) == StartsWith(c, current_file \o <<":", ":">>)
        same_file     == SelectSeq(candidates, InSameFile)
    IN  IF candidates = <<>> THEN <<>>
        ELSE IF same_file /= <<>> THEN same_file
        ELSE SubSeq(candidates, 1, IF Len(candidates) < 3 THEN Len(candidates) ELSE 3)

\* _resolve_call whose fallback returns every candidate
ResolveCall_NoCap(func_name, current_file, func_registry, resolved_deps) ==
    LET candidates == IF func_name \in DOMAIN func_registry
                      THEN func_registry[func_name] ELSE <<>>
        InSameFile(c) == StartsWith(c, current_file \o <<":", ":">>)
        IsImported(c) == BeforeSep(c) \in resolved_deps
        same_file        == SelectSeq(candidates, InSameFile)
        imported_matches == SelectSeq(candidates, IsImported)
    IN  IF candidates = <<>> THEN <<>>
        ELSE IF same_file /= <<>> THEN same_file
        ELSE IF imported_matches /= <<>> THEN imported_matches
        ELSE candidates

\* _resolve_call (lines 1204-1223)
ResolveCall(func_name, current_file, func_registry, resolved_deps) ==
    LET candidates == IF func_name \in DOMAIN func_registry
                      THEN func_registry[func_name] ELSE <<>>
        InSameFile(c) == StartsWith(c, current_file \o <<":", ":">>)
        IsImported(c) == BeforeSep(c) \in resolved_deps
        same_file        == SelectSeq(candidates, InSameFile)
        imported_matches == SelectSeq(candidates, IsImported)
    IN  IF candidates = <<>> THEN <<>>
        ELSE IF same_file /= <<>> THEN same_file
        ELSE IF imported_matches /= <<>> THEN imported_matches
        ELSE SubSeq(candidates, 1, IF Len(candidates) < 3 THEN Len(candidates) ELSE 3)

\* every (file, listed function) pair in the order phase 1 visits them
RECURSIVE AllFunctions(_)
AllFunctions(fs) ==
    IF fs = <<>> THEN <<>>
    ELSE [i \in 1..Len(fs[1].functions) |->
             [file |-> fs[1].path, name |-> fs[1].functions[i]]]
         \o AllFunctions(Tail(fs))

\* phase 1 (lines 937-954): bare name -> qualified ids, in registration order
FuncRegistry(fs) ==
    LET all == AllFunctions(fs)
    IN  [n \in {all[i].name : i \in 1..Len(all)} |->
            LET Named(e) == e.name = n
                L == SelectSeq(all, Named)
            IN  [i \in 1..Len(L) |-> QualifiedId(L[i].file, L[i].name)]]

\* the names a call scanner takes for calls inside one declaration's span:
\* Python looks every ast.Call name up in the registry (line 1005), the
\* JS/TS, Java and Go scanners search the span for every registered name of
\* two or more characters (lines 1066-1070, 1105-1108, 1140-1143)
CalleeNames(ext, d, func_registry) ==
    IF ext = EXT_PY
    THEN {n \in d.calls : n \in DOMAIN func_registry}
    ELSE {n \in DOMAIN func_registry : ~(Len(n) < 2) /\ n \in d.calls}

\* CallTargets without the `target_id != caller_id` test
CallTargets_KeepSelf(caller_id, file_path, ext, d, func_registry, resolved_deps) ==
    UNION {Range(ResolveCall(n, file_path, func_registry, resolved_deps)) :
             n \in CalleeNames(ext, d, func_registry)}

\* the targets added to caller_id's calls list for one declaration
CallTargets(caller_id, file_path, ext, d, func_registry, resolved_deps) ==
    LET resolved == UNION {Range(ResolveCall(n, file_path, func_registry, resolved_deps)) :
                             n \in CalleeNames(ext, d, func_registry)}
    IN  {target_id \in resolved : target_id /= caller_id}

\* phase 2 (lines 957-971) for one caller id: the union over every file
\* with cached content and every declaration span carrying that id
ForwardCalls(q, fs, contents, file_dependencies, func_registry) ==
    UNION {
      LET meta == fs[i]
          resolved_deps == IF meta.path \in DOMAIN file_dependencies
                           THEN Range(file_dependencies[meta.path].resolved) ELSE {}
      IN  IF /\ meta.path \in DOMAIN contents
             /\ HasExtractor(meta.extension)
             \* lines 986-989: a Python file that does not parse is not scanned
             /\ (meta.extension = EXT_PY => contents[meta.path].parses)
          THEN UNION {
                 IF QualifiedId(meta.path, contents[meta.path].decls[k].name) = q
                 THEN CallTargets(q, meta.path, meta.extension,
                                  contents[meta.path].decls[k],
                                  func_registry, resolved_deps)
                 ELSE {} : k \in 1..Len(contents[meta.path].decls)}
          ELSE {} : i \in 1..Len(fs)}

\* ReverseCalls recording only callers of the callee's own file
ReverseCalls_SameFileOnly(callee_id, calls) ==
    {qualified_id \in DOMAIN calls :
        callee_id \in calls[qualified_id] /\ BeforeSep(qualified_id) = BeforeSep(callee_id)}

\* phase 3 (lines 973-978): the callers of callee_id
ReverseCalls(callee_id, calls) ==
    {qualified_id \in DOMAIN calls : callee_id \in calls[qualified_id]}

BuildCallGraph(fs, contents, file_dependencies) ==
    LET all == AllFunctions(fs)
        ids == {QualifiedId(all[i].file, all[i].name) : i \in 1..Len(all)}
        func_registry == FuncRegistry(fs)
        calls == [q \in ids |-> ForwardCalls(q, fs, contents, file_dependencies, func_registry)]
        \* a repeated id overwrites the node (line 945)
        Last(q) == all[CHOOSE i \in 1..Len(all) :
                         /\ QualifiedId(all[i].file, all[i].name) = q
                         /\ \A j \in 1..Len(all) :
                               QualifiedId(all[j].file, all[j].name) = q => j <= i]
    IN  [q \in ids |->
            [name      |-> Last(q).name,
             file      |-> Last(q).file,
             calls     |-> calls[q],
             called_by |-> ReverseCalls(q, calls)]]

(***************************************************************************)
(* CodeAnalyzer._detect_frameworks                                         *)
(* Dependency names and framework names are only compared for equality;    *)
(* they are kept as atoms.  The rules that read other files of the tree    *)
(* (next.config.*, pom.xml, Gemfile, composer.json, go imports) name       *)
(* frameworks no layer rule lists and are left out.                        *)
(***************************************************************************)
DetectFrontend(npm_deps) ==
    (IF "next" \in npm_deps THEN {"Next.js"}
     ELSE IF "react" \in npm_deps \/ "react-dom" \in npm_deps THEN {"React"} ELSE {})
    \cup (IF "vue" \in npm_deps THEN {"Vue.js"} ELSE {})
    \cup (IF "nuxt" \in npm_deps THEN {"Nuxt.js"} ELSE {})
    \cup (IF "@angular/core" \in npm_deps THEN {"Angular"} ELSE {})
    \cup (IF "svelte" \in npm_deps THEN {"Svelte"} ELSE {})
    \cup (IF "@sveltejs/kit" \in npm_deps THEN {"SvelteKit"} ELSE {})
    \cup (IF "vite" \in npm_deps THEN {"Vite"} ELSE {})
    \cup (IF "tailwindcss" \in npm_deps THEN {"Tailwind CSS"} ELSE {})

DetectBackend(npm_deps) ==
    (IF "express" \in npm_deps THEN {"Express.js"} ELSE {})
    \cup (IF "@nestjs/core" \in npm_deps \/ "nestjs" \in npm_deps THEN {"NestJS"} ELSE {})
    \cup (IF "koa" \in npm_deps THEN {"Koa"} ELSE {})
    \cup (IF "@hapi/hapi" \in npm_deps \/ "hapi" \in npm_deps THEN {"Hapi"} ELSE {})

DetectFrameworks(npm_deps) ==
    [frontend |-> DetectFrontend(npm_deps), backend |-> DetectBackend(npm_deps)]

(***************************************************************************)
(* CodeAnalyzer._detect_databases (lines 502-610).  The trees hold no      *)
(* prisma/schema.prisma, compose or .env file, so lines 560-608 add        *)
(* nothing; python_deps are the lower-cased requirement names.             *)
(***************************************************************************)
NPM_DB_MAPPING ==
    { [dep |-> "mongoose", db |-> <<"M", "o", "n", "g", "o", "D", "B">>],
      [dep |-> "mongodb", db |-> <<"M", "o", "n", "g", "o", "D", "B">>],
      [dep |-> "pg", db |-> <<"P", "o", "s", "t", "g", "r", "e", "S", "Q", "L">>],
      [dep |-> "postgres", db |-> <<"P", "o", "s", "t", "g", "r", "e", "S", "Q", "L">>],
      [dep |-> "mysql", db |-> <<"M", "y", "S", "Q", "L">>],
      [dep |-> "mysql2", db |-> <<"M", "y", "S", "Q", "L">>],
      [dep |-> "redis", db |-> <<"R", "e", "d", "i", "s">>],
      [dep |-> "ioredis", db |-> <<"R", "e", "d", "i", "s">>],
      [dep |-> "sqlite3", db |-> <<"S", "Q", "L", "i", "t", "e">>],
      [dep |-> "better-sqlite3", db |-> <<"S", "Q", "L", "i", "t", "e">>],
      [dep |-> "sequelize", db |-> None],
      [dep |-> "typeorm", db |-> None],
      [dep |-> "prisma", db |-> None],
      [dep |-> "@prisma/client", db |-> None],
      [dep |-> "knex", db |-> None],
      [dep |-> "@elastic/elasticsearch", db |-> <<"E", "l", "a", "s", "t", "i", "c", "s", "e", "a", "r", "c", "h">>],
      [dep |-> "firebase", db |-> <<"F", "i", "r", "e", "b", "a", "s", "e">>],
      [dep |-> "firebase-admin", db |-> <<"F", "i", "r", "e", "b", "a", "s", "e">>],
      [dep |-> "@supabase/supabase-js", db |-> <<"S", "u", "p", "a", "b", "a", "s", "e">>] }

PYTHON_DB_MAPPING ==
    { [dep |-> "pymongo", db |-> <<"M", "o", "n", "g", "o", "D", "B">>],
      [dep |-> "motor", db |-> <<"M", "o", "n", "g", "o", "D", "B">>],
      [dep |-> "psycopg2", db |-> <<"P", "o", "s", "t", "g", "r", "e", "S", "Q", "L">>],
      [dep |-> "psycopg2-binary", db |-> <<"P", "o", "s", "t", "g", "r", "e", "S", "Q", "L">>],
      [dep |-> "asyncpg", db |-> <<"P", "o", "s", "t", "g", "r", "e", "S", "Q", "L">>],
      [dep |-> "pymysql", db |-> <<"M", "y", "S", "Q", "L">>],
      [dep |-> "mysqlclient", db |-> <<"M", "y", "S", "Q", "L">>],
      [dep |-> "mysql-connector-python", db |-> <<"M", "y", "S", "Q", "L">>],
      [dep |-> "redis", db |-> <<"R", "e", "d", "i", "s">>],
      [dep |-> "aioredis", db |-> <<"R", "e", "d", "i", "s">>],
      [dep |-> "sqlite3", db |-> <<"S", "Q", "L", "i", "t", "e">>],
      [dep |-> "aiosqlite", db |-> <<"S", "Q", "L", "i", "t", "e">>],
      [dep |-> "sqlalchemy", db |-> None],
      [dep |-> "django", db |-> None],
      [dep |-> "elasticsearch", db |-> <<"E", "l", "a", "s", "t", "i", "c", "s", "e", "a", "r", "c", "h">>],
      [dep |-> "firebase-admin", db |-> <<"F", "i", "r", "e", "b", "a", "s", "e">>] }

\* lines 532-534 and 556-558: `if dep in deps and db`
DetectDatabases(npm_deps, python_deps) ==
    {m.db : m \in {m \in NPM_DB_MAPPING : m.dep \in npm_deps /\ m.db /= None}}
    \cup {m.db : m \in {m \in PYTHON_DB_MAPPING : m.dep \in python_deps /\ m.db /= None}}

\* list(databases) of line 610: the elements of the set in any order
SetOrders(S) == {q \in [1..Cardinality(S) -> S] : Range(q) = S}

(***************************************************************************)
(* ArchitectureAnalyzer.LAYER_RULES, in declaration order                  *)
(***************************************************************************)
LAYER_RULES ==
    << [name |-> "frontend",
       dirs |-> { <<"s", "r", "c", "/", "c", "o", "m", "p", "o", "n", "e", "n", "t", "s">>,
                 <<"s", "r", "c", "/", "p", "a", "g", "e", "s">>,
                 <<"s", "r", "c", "/", "v", "i", "e", "w", "s">>,
                 <<"s", "r", "c", "/", "a", "p", "p">>,
                 <<"c", "l", "i", "e", "n", "t">>,
                 <<"f", "r", "o", "n", "t", "e", "n", "d">>,
                 <<"w", "e", "b">>,
                 <<"u", "i">>,
                 <<"p", "u", "b", "l", "i", "c">>,
                 <<"s", "t", "a", "t", "i", "c">>,
                 <<"s", "r", "c", "/", "s", "c", "r", "e", "e", "n", "s">>,
                 <<"s", "r", "c", "/", "l", "a", "y", "o", "u", "t", "s">>,
                 <<"c", "o", "m", "p", "o", "n", "e", "n", "t", "s">>,
                 <<"p", "a", "g", "e", "s">>,
                 <<"v", "i", "e", "w", "s">> },
       frameworks |-> {"Angular", "Next.js", "Nuxt.js", "React", "Svelte", "Vue.js"},
       has_extensions |-> TRUE,
       extensions |-> {<<".", "j", "s", "x">>, <<".", "s", "v", "e", "l", "t", "e">>, <<".", "t", "s", "x">>, <<".", "v", "u", "e">>}],
       [name |-> "api",
       dirs |-> { <<"a", "p", "i">>,
                 <<"r", "o", "u", "t", "e", "s">>,
                 <<"c", "o", "n", "t", "r", "o", "l", "l", "e", "r", "s">>,
                 <<"e", "n", "d", "p", "o", "i", "n", "t", "s">>,
                 <<"h", "a", "n", "d", "l", "e", "r", "s">>,
                 <<"s", "r", "c", "/", "a", "p", "i">>,
                 <<"a", "p", "p", "/", "a", "p", "i">>,
                 <<"s", "r", "c", "/", "r", "o", "u", "t", "e", "s">>,
                 <<"a", "p", "p", "/", "r", "o", "u", "t", "e", "s">>,
                 <<"s", "e", "r", "v", "e", "r", "/", "a", "p", "i">>,
                 <<"s", "e", "r", "v", "e", "r", "/", "r", "o", "u", "t", "e", "s">> },
       frameworks |-> {},
       has_extensions |-> FALSE,
       extensions |-> {}],
       [name |-> "services",
       dirs |-> { <<"s", "e", "r", "v", "i", "c", "e", "s">>,
                 <<"s", "e", "r", "v", "i", "c", "e">>,
                 <<"s", "r", "c", "/", "s", "e", "r", "v", "i", "c", "e", "s">>,
                 <<"a", "p", "p", "/", "s", "e", "r", "v", "i", "c", "e", "s">>,
                 <<"l", "i", "b">>,
                 <<"s", "r", "c", "/", "l", "i", "b">>,
                 <<"c", "o", "r", "e">>,
                 <<"s", "r", "c", "/", "c", "o", "r", "e">>,
                 <<"d", "o", "m", "a", "i", "n">>,
                 <<"b", "u", "s", "i", "n", "e", "s", "s">>,
                 <<"l", "o", "g", "i", "c">>,
                 <<"u", "s", "e", "c", "a", "s", "e", "s">>,
                 <<"s", "e", "r", "v", "e", "r", "/", "s", "e", "r", "v", "i", "c", "e", "s">> },
       frameworks |-> {},
       has_extensions |-> FALSE,
       extensions |-> {}],
       [name |-> "data",
       dirs |-> { <<"m", "o", "d", "e", "l", "s">>,
                 <<"s", "c", "h", "e", "m", "a", "s">>,
                 <<"e", "n", "t", "i", "t", "i", "e", "s">>,
                 <<"d", "a", "t", "a", "b", "a", "s", "e">>,
                 <<"d", "b">>,
                 <<"m", "i", "g", "r", "a", "t", "i", "o", "n", "s">>,
                 <<"p", "r", "i", "s", "m", "a">>,
                 <<"s", "r", "c", "/", "m", "o", "d", "e", "l", "s">>,
                 <<"a", "p", "p", "/", "m", "o", "d", "e", "l", "s">>,
                 <<"r", "e", "p", "o", "s", "i", "t", "o", "r", "i", "e", "s">>,
                 <<"d", "a", "l">>,
                 <<"s", "e", "r", "v", "e", "r", "/", "m", "o", "d", "e", "l", "s">> },
       frameworks |-> {"Prisma", "SQLAlchemy", "Sequelize", "TypeORM"},
       has_extensions |-> FALSE,
       extensions |-> {}],
       [name |-> "config",
       dirs |-> { <<"c", "o", "n", "f", "i", "g">>,
                 <<"c", "o", "n", "f", "i", "g", "u", "r", "a", "t", "i", "o", "n">>,
                 <<"s", "e", "t", "t", "i", "n", "g", "s">>,
                 <<"s", "r", "c", "/", "c", "o", "n", "f", "i", "g">>,
                 <<"a", "p", "p", "/", "c", "o", "n", "f", "i", "g">>,
                 <<"a", "p", "p", "/", "c", "o", "r", "e">> },
       frameworks |-> {},
       has_extensions |-> FALSE,
       extensions |-> {}],
       [name |-> "tests",
       dirs |-> { <<"t", "e", "s", "t", "s">>,
                 <<"t", "e", "s", "t">>,
                 <<"_", "_", "t", "e", "s", "t", "s", "_", "_">>,
                 <<"s", "p", "e", "c">>,
                 <<"s", "p", "e", "c", "s">>,
                 <<"s", "r", "c", "/", "_", "_", "t", "e", "s", "t", "s", "_", "_">>,
                 <<"s", "r", "c", "/", "t", "e", "s", "t">>,
                 <<"e", "2", "e">>,
                 <<"i", "n", "t", "e", "g", "r", "a", "t", "i", "o", "n">> },
       frameworks |-> {},
       has_extensions |-> FALSE,
       extensions |-> {}],
       [name |-> "middleware",
       dirs |-> { <<"m", "i", "d", "d", "l", "e", "w", "a", "r", "e">>,
                 <<"m", "i", "d", "d", "l", "e", "w", "a", "r", "e", "s">>,
                 <<"s", "r", "c", "/", "m", "i", "d", "d", "l", "e", "w", "a", "r", "e">>,
                 <<"a", "p", "p", "/", "m", "i", "d", "d", "l", "e", "w", "a", "r", "e">>,
                 <<"i", "n", "t", "e", "r", "c", "e", "p", "t", "o", "r", "s">> },
       frameworks |-> {},
       has_extensions |-> FALSE,
       extensions |-> {}],
       [name |-> "utils",
       dirs |-> { <<"u", "t", "i", "l", "s">>,
                 <<"h", "e", "l", "p", "e", "r", "s">>,
                 <<"s", "h", "a", "r", "e", "d">>,
                 <<"c", "o", "m", "m", "o", "n">>,
                 <<"s", "r", "c", "/", "u", "t", "i", "l", "s">>,
                 <<"s", "r", "c", "/", "h", "e", "l", "p", "e", "r", "s">>,
                 <<"t", "o", "o", "l", "s">>,
                 <<"l", "i", "b", "/", "u", "t", "i", "l", "s">> },
       frameworks |-> {},
       has_extensions |-> FALSE,
       extensions |-> {}] >>

LayerNames == {LAYER_RULES[r].name : r \in 1..Len(LAYER_RULES)}

(***************************************************************************)
(* ArchitectureAnalyzer._identify_components                               *)
(***************************************************************************)
ROOT_COMPONENT == <<"(", "r", "o", "o", "t", ")">>

\* lines 102-111
\* ComponentId that never uses the second directory level
ComponentId_FirstSegment(file_path) ==
    LET parts == SplitSlash(ReplaceBackslash(file_path))
    IN  IF Len(parts) >= 2 THEN parts[1]
        ELSE ROOT_COMPONENT

ComponentId(file_path) ==
    LET parts == SplitSlash(ReplaceBackslash(file_path))
    IN  IF Len(parts) >= 3 THEN JoinSlash(SubSeq(parts, 1, 2))
        ELSE IF Len(parts) >= 2 THEN parts[1]
        ELSE ROOT_COMPONENT

\* component id -> its files (in the order of self.files) and extensions
IdentifyComponents(fs) ==
    [c \in {ComponentId(fs[i].path) : i \in 1..Len(fs)} |->
        LET InC(m) == ComponentId(m.path) = c
            members == SelectSeq(fs, InC)
        IN  [files      |-> FilePaths(members),
             extensions |-> {members[i].extension : i \in 1..Len(members)}]]

(***************************************************************************)
(* ArchitectureAnalyzer._classify_layers                                   *)
(***************************************************************************)
FRONTEND_EXTS == {<<".", "t", "s", "x">>, <<".", "j", "s", "x">>, <<".", "v", "u", "e">>, <<".", "s", "v", "e", "l", "t", "e">>}

\* Python s.split('/')[-1]
LastSegment(s) == Drop(s, LastIndexOf(s, "/"))

\* what one entry d of a rule's dirs adds (lines 153-159): 10, 5, or 0 when
\* the loop goes on to the next entry
DirMatch(comp_lower, d) ==
    LET d_lower == Lower(d)
    IN  IF comp_lower = d_lower \/ StartsWith(comp_lower, d_lower \o <<"/">>) THEN 10
        ELSE IF Contains(comp_lower, <<"/">> \o d_lower)
                \/ EndsWith(comp_lower, <<"/">> \o LastSegment(d_lower)) THEN 5
        ELSE 0

\* the points the entries of a rule's dirs can add for a component
DirMatches(comp_lower, rule) == {DirMatch(comp_lower, d) : d \in rule.dirs} \ {0}

\* DirMatches of every component (line 144: comp_lower) under every rule
DirPoints(components) ==
    [c \in DOMAIN components |->
        [r \in 1..Len(LAYER_RULES) |->
            DirMatches(ReplaceBackslash(Lower(c)), LAYER_RULES[r])]]

\* The dirs loop breaks at the first entry that adds points.  dirs is a
\* Python set: its iteration order is not fixed by the program, so when some
\* entries add 10 and others add 5 either kind may come first.  exact_first
\* holds the (component, layer) pairs for which a 10-entry comes first;
\* OrderSensitive is the set of pairs for which it matters.
OrderSensitive(dir_points) ==
    {pr \in (DOMAIN dir_points) \X (1..Len(LAYER_RULES)) :
        dir_points[pr[1]][pr[2]] = {5, 10}}

\* what the dirs loop adds to score (lines 152-159)
DirScore(M, is_exact_first) ==
    IF M = {} THEN 0
    ELSE IF M = {5, 10} THEN (IF is_exact_first THEN 10 ELSE 5)
    ELSE CHOOSE m \in M : TRUE

\* FrameworkPoints adding less than a path-segment match
FrameworkPoints_Low(rule, comp_data, all_fw) ==
    IF (\E fw \in all_fw : fw \in rule.frameworks)
       /\ rule.has_extensions
       /\ (\E ext \in comp_data.extensions : ext \in rule.extensions)
    THEN 4 ELSE 0

\* the framework association (lines 161-166): a framework of the rule is
\* detected and the component holds a file with one of the rule's extensions
FrameworkPoints(rule, comp_data, all_fw) ==
    IF (\E fw \in all_fw : fw \in rule.frameworks)
       /\ rule.has_extensions
       /\ (\E ext \in comp_data.extensions : ext \in rule.extensions)
    THEN 8 ELSE 0

\* the frontend-like extensions (lines 168-172)
ExtensionPoints(rule, comp_data) ==
    IF rule.name = "frontend"
       /\ (\E ext \in comp_data.extensions : ext \in FRONTEND_EXTS)
    THEN 3 ELSE 0

\* the score of one rule for one component (lines 149-172)
RuleScore(rule, comp_data, all_fw, M, is_exact_first) ==
    DirScore(M, is_exact_first)
    + FrameworkPoints(rule, comp_data, all_fw)
    + ExtensionPoints(rule, comp_data)

\* the value of score at line 174, for every component and every rule in
\* declaration order
RuleScores(components, fws, dir_points, exact_first) ==
    LET all_fw == fws.frontend \cup fws.backend
    IN  [c \in DOMAIN components |->
            [r \in 1..Len(LAYER_RULES) |->
                RuleScore(LAYER_RULES[r], components[c], all_fw,
                          dir_points[c][r], <<c, r>> \in exact_first)]]

\* BestAfter with `>=` for `>`: the rule declared last wins a tie
RECURSIVE BestAfter_LastWins(_, _)
BestAfter_LastWins(r, score) ==
    IF r = 0 THEN [layer |-> "other", best_match_score |-> 0]
    ELSE LET prev == BestAfter_LastWins(r - 1, score)
         IN  IF score[r] >= prev.best_match_score /\ score[r] > 0
             THEN [layer |-> LAYER_RULES[r].name, best_match_score |-> score[r]]
             ELSE prev

\* BestAfter that forgets to update best_match_score: the last rule that
\* scores at all wins
RECURSIVE BestAfter_NoUpdate(_, _)
BestAfter_NoUpdate(r, score) ==
    IF r = 0 THEN [layer |-> "other", best_match_score |-> 0]
    ELSE LET prev == BestAfter_NoUpdate(r - 1, score)
         IN  IF score[r] > prev.best_match_score
             THEN [layer |-> LAYER_RULES[r].name, best_match_score |-> 0]
             ELSE prev

\* the loop over LAYER_RULES (lines 145-176): layer and best_match_score
\* after the first r rules, score[k] being the score of rule k
RECURSIVE BestAfter(_, _)
BestAfter(r, score) ==
    IF r = 0 THEN [layer |-> "other", best_match_score |-> 0]
    ELSE LET prev == BestAfter(r - 1, score)
         IN  IF score[r] > prev.best_match_score
             THEN [layer |-> LAYER_RULES[r].name, best_match_score |-> score[r]]
             ELSE prev

\* classification (line 178) from the scores of every component
ClassifyLayers(rule_scores) ==
    [c \in DOMAIN rule_scores |-> BestAfter(Len(LAYER_RULES), rule_scores[c]).layer]

(***************************************************************************)
(* ArchitectureAnalyzer._detect_edges, _build_nodes, _build_layer_summary  *)
(***************************************************************************)
\* insertion order of the components dict (lines 101-123)
ComponentOrder(fs) == Dedup([i \in 1..Len(fs) |-> ComponentId(fs[i].path)])

\* _file_to_component (lines 209-214)
FileToComponent(file_path, components, order) ==
    LET Has(c) == file_path \in Range(components[c].files)
        hits   == SelectSeq(order, Has)
    IN  IF hits = <<>> THEN None ELSE hits[1]

\* f"{source_comp}->{target_comp}" (line 194)
EdgeKey(source_comp, target_comp) == source_comp \o <<"-", ">">> \o target_comp

\* lines 188-195 for one file: the key of every resolved dependency that
\* crosses to another component, in the order of deps['resolved']
FileEdgeKeys(file_path, file_deps, components, order) ==
    LET source_comp == FileToComponent(file_path, components, order)
        resolved    == file_deps[file_path].resolved
        target == [j \in 1..Len(resolved) |-> FileToComponent(resolved[j], components, order)]
        Crosses(j) == source_comp /= None /\ target[j] /= None /\ source_comp /= target[j]
        Idx == SelectSeq([j \in 1..Len(resolved) |-> j], Crosses)
    IN  [k \in 1..Len(Idx) |-> EdgeKey(source_comp, target[Idx[k]])]

\* lines 187-195: the keys in the order the two loops count them
RECURSIVE EdgeKeys(_, _, _, _)
EdgeKeys(paths, file_deps, components, order) ==
    IF paths = <<>> THEN <<>>
    ELSE FileEdgeKeys(Head(paths), file_deps, components, order)
         \o EdgeKeys(Tail(paths), file_deps, components, order)

\* edge_counts after the loops
EdgeCounts(keys) ==
    [k \in Range(keys) |-> Cardinality({i \in 1..Len(keys) : keys[i] = k})]

\* Python edge_key.split('->')
RECURSIVE SplitArrow(_)
SplitArrow(edge_key) ==
    LET H == {i \in 1..(Len(edge_key) - 1) : edge_key[i] = "-" /\ edge_key[i + 1] = ">"}
    IN  IF H = {} THEN <<edge_key>>
        ELSE LET i == CHOOSE i \in H : \A j \in H : i <= j
             IN  <<SubSeq(edge_key, 1, i - 1)>> \o SplitArrow(Drop(edge_key, i + 1))

\* line 199: `source, target = edge_key.split('->')` raises ValueError
\* unless the split has exactly two parts
DetectEdgesRaises(keys) == \E k \in Range(keys) : Len(SplitArrow(k)) /= 2

\* lines 198-205: one edge per key of edge_counts, in insertion order
DetectEdges(keys) ==
    LET edge_counts == EdgeCounts(keys)
        order       == Dedup(keys)
    IN  [i \in 1..Len(order) |->
            [source |-> SplitArrow(order[i])[1],
             target |-> SplitArrow(order[i])[2],
             label  |-> "imports",
             weight |-> edge_counts[order[i]]]]

\* f"db::{db}" (line 242)
DbNodeId(db) == <<"d", "b", ":", ":">> \o db

\* _build_nodes (lines 216-254); of a node's fields the id, type, layer and
\* file_count are kept
BuildNodes(components, order, classification, dbs) ==
    [i \in 1..Len(order) |->
        [id         |-> order[i],
         type       |-> "component",
         layer      |-> IF order[i] \in DOMAIN classification
                        THEN classification[order[i]] ELSE "other",
         file_count |-> Len(components[order[i]].files)]]
    \o [i \in 1..Len(dbs) |->
        [id |-> DbNodeId(dbs[i]), type |-> "database", layer |-> "data", file_count |-> 0]]

\* layer_order (line 281)
LAYER_ORDER ==
    <<"frontend", "api", "middleware", "services", "data", "config", "utils", "tests", "other">>

\* _build_layer_summary (lines 279-292)
BuildLayerSummary(nodes) ==
    LET LayerNodes(layer_name) ==
            LET InLayer(n) == n.layer = layer_name
                L == SelectSeq(nodes, InLayer)
            IN  [i \in 1..Len(L) |-> L[i].id]
        all == [i \in 1..Len(LAYER_ORDER) |->
                   [name |-> LAYER_ORDER[i], nodes |-> LayerNodes(LAYER_ORDER[i])]]
        NonEmpty(e) == e.nodes /= <<>>
    IN  SelectSeq(all, NonEmpty)

MaxLayerFiles == 3

LayerUniverse ==
    { [path |-> <<"s", "r", "c", "/", "a", "p", "i", "/", "r", ".", "p", "y">>,
       imports |-> <<<<"m">>>>,
       decls |-> <<>>,
       classes |-> <<>>, main_text |-> FALSE,
       lines |-> 1, size |-> 9, readable |-> TRUE, parses |-> TRUE],
      [path |-> <<"a", "p", "i", "/", "h", ".", "p", "y">>,
       imports |-> <<<<"s">>, <<"f", "a", "s", "t", "a", "p", "i">>>>,
       decls |-> <<>>,
       classes |-> <<>>, main_text |-> FALSE,
       lines |-> 2, size |-> 24, readable |-> TRUE, parses |-> TRUE],
      [path |-> <<"a", "p", "i", "/", "s", "e", "r", "v", "i", "c", "e", "s", "/", "s", ".", "p", "y">>,
       imports |-> <<<<"h">>>>,
       decls |-> <<>>,
       classes |-> <<>>, main_text |-> FALSE,
       lines |-> 1, size |-> 9, readable |-> TRUE, parses |-> TRUE],
      [path |-> <<"a", "p", "p", "/", "c", "o", "r", "e", "/", "c", ".", "p", "y">>,
       imports |-> <<>>,
       decls |-> <<>>,
       classes |-> <<>>, main_text |-> FALSE,
       lines |-> 1, size |-> 1, readable |-> TRUE, parses |-> TRUE],
      [path |-> <<"m", ".", "p", "y">>,
       imports |-> <<<<"h">>, <<"r">>>>,
       decls |-> <<>>,
       classes |-> <<>>, main_text |-> FALSE,
       lines |-> 2, size |-> 18, readable |-> TRUE, parses |-> TRUE],
      [path |-> <<"s", "r", "c", "/", "c", "o", "m", "p", "o", "n", "e", "n", "t", "s", "/", "b", ".", "t", "s", "x">>,
       imports |-> <<<<"r", "e", "a", "c", "t">>, <<".", ".", "/", ".", ".", "/", "l", "i", "b", "/", "u", "t", "i", "l", "s", "/", "u">>>>,
       decls |-> <<>>,
       classes |-> <<>>, main_text |-> FALSE,
       lines |-> 2, size |-> 60, readable |-> TRUE, parses |-> TRUE],
      [path |-> <<"l", "i", "b", "/", "u", "t", "i", "l", "s", "/", "u", ".", "j", "s">>,
       imports |-> <<>>,
       decls |-> <<>>,
       classes |-> <<>>, main_text |-> FALSE,
       lines |-> 1, size |-> 1, readable |-> TRUE, parses |-> TRUE],
      [path |-> <<"a", "p", "i", "/", "v", "2", "/", "x", ".", "t", "s", "x">>,
       imports |-> <<<<".", ".", "/", "h">>>>,
       decls |-> <<>>,
       classes |-> <<>>, main_text |-> FALSE,
       lines |-> 1, size |-> 23, readable |-> TRUE, parses |-> TRUE] }

MaxArchFiles == 3

ArchUniverse ==
    { [path |-> <<"c", "o", "r", "e", "/", "a", ".", "p", "y">>,
       imports |-> <<<<"x">>, <<"y">>, <<"l", "i", "b", ".", "x">>>>,
       decls |-> <<>>,
       classes |-> <<>>, main_text |-> FALSE,
       lines |-> 3, size |-> 31, readable |-> TRUE, parses |-> TRUE],
      [path |-> <<"c", "o", "r", "e", "/", "b", ".", "p", "y">>,
       imports |-> <<<<"x">>, <<"a">>>>,
       decls |-> <<>>,
       classes |-> <<>>, main_text |-> FALSE,
       lines |-> 2, size |-> 18, readable |-> TRUE, parses |-> TRUE],
      [path |-> <<"l", "i", "b", "/", "x", ".", "p", "y">>,
       imports |-> <<>>,
       decls |-> <<>>,
       classes |-> <<>>, main_text |-> FALSE,
       lines |-> 1, size |-> 1, readable |-> TRUE, parses |-> TRUE],
      [path |-> <<"l", "i", "b", "/", "y", ".", "p", "y">>,
       imports |-> <<<<"a">>>>,
       decls |-> <<>>,
       classes |-> <<>>, main_text |-> FALSE,
       lines |-> 1, size |-> 9, readable |-> TRUE, parses |-> TRUE],
      [path |-> <<"a", "-", ">", "b", "/", "t", ".", "p", "y">>,
       imports |-> <<<<"x">>>>,
       decls |-> <<>>,
       classes |-> <<>>, main_text |-> FALSE,
       lines |-> 1, size |-> 9, readable |-> TRUE, parses |-> TRUE],
      [path |-> <<"d", "b", ":", ":", "R", "e", "d", "i", "s", "/", "z", ".", "p", "y">>,
       imports |-> <<>>,
       decls |-> <<>>,
       classes |-> <<>>, main_text |-> FALSE,
       lines |-> 1, size |-> 1, readable |-> TRUE, parses |-> TRUE] }

MaxOrderFiles == 2

\* components that one rule matches both by a prefix entry and by the last
\* segment of another entry
OrderUniverse ==
    { [path |-> <<"c", "o", "n", "f", "i", "g", "/", "c", "o", "r", "e", "/", "k", ".", "p", "y">>,
       imports |-> <<>>,
       decls |-> <<>>,
       classes |-> <<>>, main_text |-> FALSE,
       lines |-> 1, size |-> 1, readable |-> TRUE, parses |-> TRUE],
      [path |-> <<"s", "e", "t", "t", "i", "n", "g", "s", "/", "c", "o", "r", "e", "/", "s", ".", "p", "y">>,
       imports |-> <<<<"k">>>>,
       decls |-> <<>>,
       classes |-> <<>>, main_text |-> FALSE,
       lines |-> 1, size |-> 9, readable |-> TRUE, parses |-> TRUE],
      [path |-> <<"s", "e", "r", "v", "i", "c", "e", "s", "/", "v", ".", "p", "y">>,
       imports |-> <<<<"s">>>>,
       decls |-> <<>>,
       classes |-> <<>>, main_text |-> FALSE,
       lines |-> 1, size |-> 9, readable |-> TRUE, parses |-> TRUE] }

MaxFaultFiles == 3

FaultUniverse ==
    { [path |-> <<"p", "k", "g", "/", "a", ".", "p", "y">>,
       imports |-> <<<<"b">>>>,
       decls |-> <<[name |-> <<"f", "a">>, listed |-> TRUE, calls |-> {<<"f", "b">>}]>>,
       classes |-> <<<<"K">>>>, main_text |-> TRUE,
       lines |-> 8, size |-> 97, readable |-> TRUE, parses |-> TRUE],
      [path |-> <<"p", "k", "g", "/", "b", ".", "p", "y">>,
       imports |-> <<<<"a">>>>,
       decls |-> <<[name |-> <<"f", "b">>, listed |-> TRUE, calls |-> {<<"f", "a">>}]>>,
       classes |-> <<>>, main_text |-> FALSE,
       lines |-> 4, size |-> 43, readable |-> TRUE, parses |-> TRUE],
      [path |-> <<"w", "e", "b", "/", "c", ".", "j", "s">>,
       imports |-> <<<<".", "/", "e">>>>,
       decls |-> <<[name |-> <<"f", "c">>, listed |-> TRUE, calls |-> {<<"f", "a">>}]>>,
       classes |-> <<<<"W">>>>, main_text |-> TRUE,
       lines |-> 7, size |-> 90, readable |-> TRUE, parses |-> TRUE],
      [path |-> <<"d", ".", "p", "y">>,
       imports |-> <<<<"a">>, <<"b">>>>,
       decls |-> <<[name |-> <<"f", "d">>, listed |-> TRUE, calls |-> {<<"f", "a">>, <<"f", "b">>}]>>,
       classes |-> <<>>, main_text |-> FALSE,
       lines |-> 6, size |-> 62, readable |-> TRUE, parses |-> TRUE] }

\* the files of FaultUniverse as they are, with bytes that cannot be read
\* (read_text raises), and, for Python, with content ast.parse rejects
FaultFiles ==
    FaultUniverse
    \cup {[f EXCEPT !.readable = FALSE] : f \in FaultUniverse}
    \cup {[f EXCEPT !.parses = FALSE] : f \in {f \in FaultUniverse : PathSuffix(f.path) = EXT_PY}}

\* the dependency names the package.json and requirements files of a tree
\* of ArchUniverse declare
ArchStacks ==
    { [npm |-> {}, pip |-> {}],
      [npm |-> {"pg", "mongoose", "sequelize"}, pip |-> {}],
      [npm |-> {"pg"}, pip |-> {"redis", "psycopg2", "sqlalchemy"}] }

(***************************************************************************)
(* The analysed trees: a set of files and the dependency names of its      *)
(* package.json and requirements files                                     *)
(***************************************************************************)
Trees ==
    {[files |-> T, npm |-> {}, pip |-> {}, exists |-> TRUE] :
        T \in {T \in SUBSET ResolverUniverse : Cardinality(T) <= MaxResolverFiles}
              \cup {T \in SUBSET CallUniverse : Cardinality(T) <= MaxCallFiles}}
    \cup {[files |-> T, npm |-> n, pip |-> {}, exists |-> TRUE] :
            T \in {T \in SUBSET LayerUniverse : Cardinality(T) <= MaxLayerFiles},
            n \in {{}, {"react"}}}
    \cup {[files |-> T, npm |-> k.npm, pip |-> k.pip, exists |-> TRUE] :
            T \in {T \in SUBSET ArchUniverse : Cardinality(T) <= MaxArchFiles},
            k \in ArchStacks}
    \cup {[files |-> T, npm |-> {}, pip |-> {}, exists |-> TRUE] :
            T \in {T \in SUBSET FaultFiles :
                      /\ Cardinality(T) <= MaxFaultFiles
                      /\ Cardinality(Paths(T)) = Cardinality(T)}}
    \cup {[files |-> T, npm |-> {}, pip |-> {}, exists |-> TRUE] :
            T \in {T \in SUBSET OrderUniverse : Cardinality(T) <= MaxOrderFiles}}
    \* a repo_path that names nothing
    \cup {[files |-> {}, npm |-> {}, pip |-> {}, exists |-> FALSE]}

(***************************************************************************)
(* The repositories POST /analyze clones: small trees, among them the one  *)
(* whose analysis raises                                                   *)
(***************************************************************************)
MaxCloneFiles == 2

Remotes ==
    {[files |-> T, npm |-> {}, pip |-> {}, exists |-> TRUE] :
        T \in {T \in SUBSET ArchUniverse : Cardinality(T) <= MaxCloneFiles}}

(***************************************************************************)
(* The chat context (services/chat_service.py)                             *)
(*                                                                         *)
(* build_context only concatenates, slices and measures strings, so every  *)
(* string of the analysis record is represented by its length, and         *)
(* context_parts by the number of its parts and the sum of their lengths.  *)
(* A file of the record is                                                 *)
(*   path        : len(file_path)                                          *)
(*   language    : len(info['language'].lower().split()[0])                *)
(*   n_classes, n_functions : len(info['classes']), len(info['functions']) *)
(*   classes, functions : len(', '.join(classes[:5])), (functions[:8])     *)
(*   content     : len(info['content'])                                    *)
(*   mentioned   : whether extract_mentioned_files finds it in the question*)
(*   entry, key  : whether entry_points, key_files list it                 *)
(***************************************************************************)
MAX_CONTEXT_CHARS == 28000

\* the default of build_context's max_code_files, which chat_about_repo uses
MAX_CODE_FILES == 6

Min(a, b) == IF a <= b THEN a ELSE b

\* len(str(n)) for the counts that occur
Digits(n) == IF n < 10 THEN 1 ELSE IF n < 100 THEN 2 ELSE IF n < 1000 THEN 3 ELSE 4

NoParts == [chars |-> 0, parts |-> 0]

\* context_parts.append(part)
AppendPart(cp, n) == [chars |-> cp.chars + n, parts |-> cp.parts + 1]

\* len("\n".join(context_parts))
JoinedLen(cp) == IF cp.parts = 0 THEN 0 ELSE cp.chars + cp.parts - 1

RECURSIVE DependencyParts(_, _, _)
\* lines 120-124: one part per source that has dependencies
DependencyParts(cp, deps, i) ==
    IF i > Len(deps) THEN cp
    ELSE DependencyParts(AppendPart(cp, 2 + deps[i].source + 4 + deps[i].joined), deps, i + 1)

\* lines 80-125: the parts that precede the files
HeadParts(data) ==
    LET p1 == AppendPart(NoParts, 14 + data.url + 1)
        p2 == IF data.readme > 0 THEN AppendPart(p1, 14 + Min(data.readme, 5000) + 5) ELSE p1
        p3 == IF data.languages > 0 THEN AppendPart(p2, 13 + data.languages + 1) ELSE p2
        p4 == IF data.has_frameworks /\ data.frontend > 0
              THEN AppendPart(p3, 14 + data.frontend) ELSE p3
        p5 == IF data.has_frameworks /\ data.backend > 0
              THEN AppendPart(p4, 13 + data.backend) ELSE p4
        p6 == IF data.has_frameworks THEN AppendPart(p5, 0) ELSE p5
        p7 == IF data.databases > 0 THEN AppendPart(p6, 15 + data.databases + 1) ELSE p6
    IN  IF data.has_dependencies
        THEN AppendPart(DependencyParts(AppendPart(p7, 15), data.deps, 1), 0)
        ELSE p7

RECURSIVE ByScore(_, _)
\* lines 61-69: the unseen files, highest score first; list.sort is stable
ByScore(files, S) ==
    IF S = {} THEN <<>>
    ELSE LET score(i) == files[i].n_functions + files[i].n_classes * 2
             best == CHOOSE i \in S :
                        \A j \in S : score(i) > score(j) \/ (score(i) = score(j) /\ i <= j)
         IN  <<best>> \o ByScore(files, S \ {best})

\* prioritize_files: mentioned files, entry points, key files, then the rest
PrioritizeFiles(files) ==
    LET idx == [i \in 1..Len(files) |-> i]
        m == SelectSeq(idx, LAMBDA i : files[i].mentioned)
        e == SelectSeq(idx, LAMBDA i : files[i].entry /\ ~files[i].mentioned)
        k == SelectSeq(idx, LAMBDA i : files[i].key /\ ~files[i].entry /\ ~files[i].mentioned)
        seen == Range(m) \cup Range(e) \cup Range(k)
    IN  m \o e \o k \o ByScore(files, (1..Len(files)) \ seen)

\* lines 142-152: the line of one file in the overview
OverviewLine(f) ==
    LET c == IF f.n_classes > 0 THEN 9 + f.classes ELSE 0
        g == IF f.n_functions > 0 THEN 11 + f.functions ELSE 0
        summary == IF c > 0 /\ g > 0 THEN c + 2 + g ELSE c + g
    IN  IF summary > 0 THEN 4 + f.path + 4 + summary ELSE 2 + f.path

RECURSIVE OverviewLines(_, _, _)
OverviewLines(cp, files, i) ==
    IF i > Min(Len(files), 50) THEN cp
    ELSE OverviewLines(AppendPart(cp, OverviewLine(files[i])), files, i + 1)

\* lines 140-156
OverviewParts(cp, files) ==
    LET lines == OverviewLines(AppendPart(cp, 26), files, 1)
        more  == IF Len(files) > 50
                 THEN AppendPart(lines, 10 + Digits(Len(files) - 50) + 11)
                 ELSE lines
    IN  AppendPart(more, 0)

RECURSIVE SourceLoop(_, _, _, _)
\* lines 161-191: the loop over the prioritized files; st holds
\* context_parts, current_size and files_included
SourceLoop(files, prioritized, i, st) ==
    IF i > Len(prioritized) \/ st.files_included >= MAX_CODE_FILES THEN st
    ELSE LET info == files[prioritized[i]]
             file_header == 4 + info.path + 1
             file_block == 3 + info.language + 1 + info.content + 6
             new_size == st.current_size + file_header + file_block
             max_content == MAX_CONTEXT_CHARS - st.current_size - file_header - 100
             truncated == Min(info.content, max_content) + 16
         IN  IF info.content = 0 THEN SourceLoop(files, prioritized, i + 1, st)
             ELSE IF new_size > MAX_CONTEXT_CHARS
             THEN IF max_content > 500
                  THEN [st EXCEPT
                          !.cp = AppendPart(AppendPart(st.cp, file_header),
                                            3 + info.language + 1 + truncated + 6),
                          !.files_included = st.files_included + 1]
                  ELSE st
             ELSE SourceLoop(files, prioritized, i + 1,
                             [cp |-> AppendPart(AppendPart(st.cp, file_header), file_block),
                              current_size |-> new_size,
                              files_included |-> st.files_included + 1])

\* build_context (lines 73-197): the length of the string it returns
BuildContext(data) ==
    LET head == HeadParts(data)
        prioritized == PrioritizeFiles(data.files)
        st == SourceLoop(data.files, prioritized, 1,
                         [cp |-> AppendPart(OverviewParts(head, data.files), 15),
                          current_size |-> head.chars,
                          files_included |-> 0])
        remaining == Len(prioritized) - st.files_included
    IN  IF data.files = <<>> THEN JoinedLen(head)
        ELSE IF st.files_included < Len(prioritized)
        THEN JoinedLen(AppendPart(st.cp, 2 + Digits(remaining) + 46))
        ELSE JoinedLen(st.cp)

(***************************************************************************)
(* The analysis records sent to POST /chat                                 *)
(***************************************************************************)
MaxChatFiles == 4

\* a record as analyze() returns it for a tree without README and manifests,
\* and one with a long README, a stack and two dependency sources
ChatHeads ==
    { [url |-> 22, readme |-> 0, languages |-> 17, has_frameworks |-> TRUE,
       frontend |-> 0, backend |-> 0, databases |-> 0,
       has_dependencies |-> TRUE, deps |-> <<>>],
      [url |-> 22, readme |-> 6000, languages |-> 42, has_frameworks |-> TRUE,
       frontend |-> 5, backend |-> 16, databases |-> 17,
       has_dependencies |-> TRUE,
       deps |-> <<[source |-> 12, joined |-> 120], [source |-> 16, joined |-> 64]>>] }

\* files as _analyze_file records them: content holds at most
\* MAX_CONTENT_SIZE = 8000 characters, plus 16 of the truncation mark
ChatFileKinds ==
    { [path |-> 7, language |-> 6, n_classes |-> 0, n_functions |-> 0,
       classes |-> 0, functions |-> 0, content |-> 8000,
       mentioned |-> FALSE, entry |-> FALSE, key |-> FALSE],
      [path |-> 16, language |-> 6, n_classes |-> 0, n_functions |-> 8,
       classes |-> 0, functions |-> 118, content |-> 8016,
       mentioned |-> FALSE, entry |-> FALSE, key |-> FALSE],
      [path |-> 21, language |-> 10, n_classes |-> 2, n_functions |-> 3,
       classes |-> 14, functions |-> 25, content |-> 8016,
       mentioned |-> TRUE, entry |-> FALSE, key |-> FALSE],
      [path |-> 11, language |-> 6, n_classes |-> 0, n_functions |-> 1,
       classes |-> 0, functions |-> 4, content |-> 600,
       mentioned |-> FALSE, entry |-> TRUE, key |-> TRUE],
      [path |-> 15, language |-> 6, n_classes |-> 1, n_functions |-> 0,
       classes |-> 4, functions |-> 0, content |-> 0,
       mentioned |-> FALSE, entry |-> FALSE, key |-> TRUE] }

ChatRecords ==
    {[url |-> h.url, readme |-> h.readme, languages |-> h.languages,
      has_frameworks |-> h.has_frameworks, frontend |-> h.frontend,
      backend |-> h.backend, databases |-> h.databases,
      has_dependencies |-> h.has_dependencies, deps |-> h.deps,
      files |-> fs] :
        h \in ChatHeads,
        fs \in UNION {[1..n -> ChatFileKinds] : n \in 0..MaxChatFiles}}

NoAnalysisData == [files |-> <<>>]

NoContext == -1

(***************************************************************************)
(* The span scanners of the JS/TS call extraction                          *)
(* Contents are sequences of one-character strings; At gives the character *)
(* at a Python (0-based) index.                                            *)
(***************************************************************************)
At(content, i) == content[i + 1]

\* the three characters of the test `char in '"\'...'` (line 1160); the
\* backtick is spelled out, every other character stands for itself
Single == "'"
Double == "\""
Backtick == "backtick"
QuoteChars == {Double, Single, Backtick}

\* string_char while in_string is False
NoQuote == ""

\* the loop of _find_brace_end (lines 1157-1176) from index i on, with the
\* values of depth and string_char (in_string is string_char /= NoQuote)
RECURSIVE BraceScan(_, _, _, _)
BraceScan(content, i, depth, string_char) ==
    IF ~(i < Len(content)) THEN Len(content)
    ELSE LET char == At(content, i)
             sc == IF char \in QuoteChars /\ (i = 0 \/ At(content, i - 1) /= "\\")
                   THEN (IF string_char = NoQuote THEN char
                         ELSE IF char = string_char THEN NoQuote
                         ELSE string_char)
                   ELSE string_char
             d  == IF sc /= NoQuote THEN depth
                   ELSE IF char = "{" THEN depth + 1
                   ELSE IF char = "}" THEN depth - 1
                   ELSE depth
         IN  IF sc = NoQuote /\ char = "}" /\ d = 0 THEN i + 1
             ELSE BraceScan(content, i + 1, d, sc)

\* _find_brace_end (lines 1150-1177)
FindBraceEnd(content, start) == BraceScan(content, start, 0, NoQuote)

\* lines 1193-1195: the first index from j on that holds no blank or tab
RECURSIVE SkipBlanks(_, _)
SkipBlanks(content, j) ==
    IF j < Len(content) /\ At(content, j) \in {" ", "\t"}
    THEN SkipBlanks(content, j + 1) ELSE j

\* the loop of _find_arrow_end (lines 1185-1201) from index i on
RECURSIVE ArrowScan(_, _, _)
ArrowScan(content, i, paren_depth) ==
    IF ~(i < Len(content)) THEN Len(content)
    ELSE LET char == At(content, i)
             j == SkipBlanks(content, i + 1)
         IN  IF char = "(" THEN ArrowScan(content, i + 1, paren_depth + 1)
             ELSE IF char = ")" THEN ArrowScan(content, i + 1, paren_depth - 1)
             ELSE IF paren_depth = 0 /\ char = ";" THEN i
             ELSE IF /\ paren_depth = 0
                     /\ char = "\n"
                     /\ j < Len(content)
                     /\ At(content, j) \notin {".", "?", ":", "&", "|"}
             THEN i
             ELSE ArrowScan(content, i + 1, paren_depth)

\* _find_arrow_end (lines 1179-1202)
FindArrowEnd(content, start) == ArrowScan(content, start, 0)

\* content.find(sub, start) for a one-character sub
Find(content, sub, start) ==
    LET from == IF start >= 0 THEN start
                ELSE IF Len(content) + start >= 0 THEN Len(content) + start ELSE 0
        hits == {i \in from..(Len(content) - 1) : At(content, i) = sub}
    IN  IF hits = {} THEN -1 ELSE CHOOSE i \in hits : \A k \in hits : i <= k

\* _extract_js_calls lines 1044-1050: body_end for a match that ends at
\* match_end
JsBodyEnd(content, match_end) ==
    LET body_start == Find(content, "{", match_end - 10)
    IN  IF body_start = -1 THEN FindArrowEnd(content, match_end)
        ELSE FindBraceEnd(content, body_start)

(***************************************************************************)
(* The contents given to the span scanners: a few lexical pieces in a row  *)
(***************************************************************************)
MaxBraceTokens == 4
MaxArrowTokens == 3

RECURSIVE Concat(_)
Concat(ts) == IF ts = <<>> THEN <<>> ELSE Head(ts) \o Concat(Tail(ts))

\* braces, a plain character, and string literals in the three quotes that
\* hold a brace, an escaped quote or an escaped backslash
BraceTokens ==
    { <<"{">>, <<"}">>, <<"a">>,
      <<Single, "}", Single>>,
      <<Backtick, "{", Double, Backtick>>,
      <<Double, "\\", Double, "}", Double>>,
      <<Single, "\\", "\\", Single>> }

\* [content, start]: start is the index of one of the pieces <<"{">>
BraceInputs ==
    UNION {{[content |-> Concat(ts), start |-> Len(Concat(SubSeq(ts, 1, k - 1))),
             match_end |-> 0, body_end |-> -1] :
               k \in {n \in 1..Len(ts) : ts[n] = <<"{">>}} :
           ts \in UNION {[1..n -> BraceTokens] : n \in 1..MaxBraceTokens}}

\* let f=()=> : a match of the second alternative of func_pattern
ArrowHead == <<"l", "e", "t", " ", "f", "=", "(", ")", "=", ">">>

ArrowTokens ==
    { <<"g", "(", ")">>, <<";">>, <<"\n">>, <<" ">>, <<".">>,
      <<"(">>, <<")">>, <<"{">>, <<"}">> }

\* [content, start, match_end]: the match starts at index 0
ArrowInputs ==
    {[content |-> ArrowHead \o Concat(ts), start |-> 0,
      match_end |-> Len(ArrowHead), body_end |-> -1] :
        ts \in UNION {[1..n -> ArrowTokens] : n \in 0..MaxArrowTokens}}

NoScan == [content |-> <<>>, start |-> 0, match_end |-> 0, body_end |-> -1]

(***************************************************************************)
(* State                                                                   *)
(***************************************************************************)
VARIABLES
    disk,               \* the tree on disk
    listing,            \* the order in which os.walk lists the files of disk
    run,                \* number of the current analyze() run over disk
    pc,                 \* position inside CodeAnalyzer.analyze
    todo,               \* files the loop of line 83 has still to visit
    files,              \* self.files, in insertion order
    file_contents,      \* self._file_contents
    frameworks,         \* result of _detect_frameworks
    file_dependencies,  \* result of _build_file_dependencies
    call_graph,         \* result of _build_call_graph
    exact_first,        \* iteration order of the LAYER_RULES dirs sets
    dir_points,         \* what the dirs of every rule can add, per component
    scores,             \* the score of every rule for every component
    layers,             \* result of ArchitectureAnalyzer._classify_layers
    databases,          \* result of _detect_databases
    architecture,       \* result of ArchitectureAnalyzer.generate
    result,             \* the record analyze() returned in this run
    prev,               \* the record analyze() returned in the previous run,
                        \* and whether every dirs loop of that run met its
                        \* 5-entries first
    endpoint,           \* what is exercised: the route GET /structure over a
                        \* tree on disk, POST /analyze over a cloned one,
                        \* POST /chat over an analysis record, or one of the
                        \* span scanners over a JS/TS content
    workspace,          \* the directories that exist under BASE_DIR
    path,               \* the local `path` of analyze_repo
    responded,          \* whether analyze_repo has left its finally block
    analysis_data,      \* the record a chat request carries
    context,            \* len() of the string build_context returned
    scan                \* content, start, match.end() and body_end of a span scan

reqvars == <<endpoint, workspace, path, responded, analysis_data, context, scan>>

vars == <<disk, listing, run, pc, todo, files, file_contents, frameworks,
          file_dependencies, call_graph, exact_first, dir_points, scores, layers,
          databases, architecture, result, prev, reqvars>>

NoResult == [returned |-> FALSE]

NoArchitecture == [raised |-> FALSE, nodes |-> <<>>, edges |-> <<>>, layers |-> <<>>]

\* CodeAnalyzer.__init__ (lines 71-78)
NewAnalyzer ==
    /\ todo = <<>>
    /\ files = <<>>
    /\ file_contents = <<>>
    /\ frameworks = [frontend |-> {}, backend |-> {}]
    /\ file_dependencies = <<>>
    /\ call_graph = <<>>
    /\ exact_first = {}
    /\ dir_points = <<>>
    /\ scores = <<>>
    /\ layers = <<>>
    /\ databases = <<>>
    /\ architecture = NoArchitecture
    /\ result = NoResult

Init ==
    /\ endpoint \in {"structure", "analyze", "chat", "find_brace_end", "js_arrow_span"}
    /\ disk \in IF endpoint = "structure" THEN Trees
                ELSE IF endpoint = "analyze" THEN Remotes
                ELSE {[files |-> {}, npm |-> {}, pip |-> {}, exists |-> FALSE]}
    /\ analysis_data \in IF endpoint = "chat" THEN ChatRecords ELSE {NoAnalysisData}
    /\ context = NoContext
    /\ scan \in IF endpoint = "find_brace_end" THEN BraceInputs
                ELSE IF endpoint = "js_arrow_span" THEN ArrowInputs
                ELSE {NoScan}
    /\ listing \in WalkOrders(Paths(disk.files))
    /\ run = 1
    /\ prev = NoResult
    /\ pc = "request"
    /\ workspace = {}
    /\ path = None
    /\ responded = FALSE
    /\ NewAnalyzer

(***************************************************************************)
(* CodeAnalyzer.analyze, step by step                                      *)
(***************************************************************************)
\* PathExists that lets every path through
PathExists_Always(tree) == TRUE

\* Path(repo_path).exists() (api/structure.py line 26)
PathExists(tree) == tree.exists

\* get_repository_structure (api/structure.py lines 23-33): a missing path
\* is answered with HTTPException(404) before the analyzer is built
ValidatePath ==
    /\ endpoint = "structure"
    /\ pc = "request"
    /\ pc' = IF PathExists(disk) THEN "start" ELSE "http404"
    /\ UNCHANGED <<disk, listing, run, todo, files, file_contents, frameworks,
                   file_dependencies, call_graph, exact_first, dir_points, scores, layers,
                   databases, architecture, result, prev>>
    /\ UNCHANGED reqvars

(***************************************************************************)
(* POST /analyze (api/analyze.py): clone, scan, analyse, delete            *)
(***************************************************************************)
\* os.path.join(BASE_DIR, repo_id): one fresh directory name per request
RepoPath(n) == <<"workspace", n>>

\* clone_repo lines 14-34: a URL that is empty, not on github.com or not of
\* the form user/repository is answered with HTTPException(400) before
\* anything is created
ValidateUrl ==
    /\ endpoint = "analyze"
    /\ pc = "request"
    /\ \E url_ok \in BOOLEAN :
          pc' = IF url_ok THEN "clone" ELSE "http400"
    /\ UNCHANGED <<disk, listing, run, todo, files, file_contents, frameworks,
                   file_dependencies, call_graph, exact_first, dir_points, scores, layers,
                   databases, architecture, result, prev, reqvars>>

\* clone_repo lines 36-42: Repo.clone_from either fills repo_path, or raises
\* GitCommandError having created repo_path or not
CloneFrom ==
    /\ pc = "clone"
    /\ \E outcome \in {"cloned", "failed_partial", "failed_empty"} :
          /\ workspace' = IF outcome = "failed_empty" THEN workspace
                          ELSE workspace \cup {RepoPath(run)}
          /\ path' = IF outcome = "cloned" THEN RepoPath(run) ELSE path
          /\ pc' = IF outcome = "cloned" THEN "scan" ELSE "clone_failed"
    /\ UNCHANGED <<disk, listing, run, todo, files, file_contents, frameworks,
                   file_dependencies, call_graph, exact_first, dir_points, scores, layers,
                   databases, architecture, result, prev, endpoint, responded,
                   analysis_data, context, scan>>

\* the except clause that leaves the partial clone behind
CleanupPartialClone_Skip(ws, repo_path) == ws

\* clone_repo lines 43-46: if os.path.exists(repo_path): shutil.rmtree(...)
CleanupPartialClone(ws, repo_path) ==
    IF repo_path \in ws THEN ws \ {repo_path} ELSE ws

\* clone_repo lines 43-65: the except clause, ending in HTTPException(400)
CloneFailed ==
    /\ pc = "clone_failed"
    /\ workspace' = CleanupPartialClone(workspace, RepoPath(run))
    /\ pc' = "http400"
    /\ UNCHANGED <<disk, listing, run, todo, files, file_contents, frameworks,
                   file_dependencies, call_graph, exact_first, dir_points, scores, layers,
                   databases, architecture, result, prev, endpoint, path, responded,
                   analysis_data, context, scan>>

\* analyze_repo line 31: scan_repo(path) walks the clone and changes nothing
ScanRepo ==
    /\ pc = "scan"
    /\ pc' = "start"
    /\ UNCHANGED <<disk, listing, run, todo, files, file_contents, frameworks,
                   file_dependencies, call_graph, exact_first, dir_points, scores, layers,
                   databases, architecture, result, prev, reqvars>>

\* analyze_repo lines 43-46: if path: shutil.rmtree(path, ignore_errors=True)
CleanupClone(ws, p) ==
    IF p /= None THEN ws \ {p} ELSE ws

\* analyze_repo lines 43-46: the finally block, entered when the body has
\* returned and when clone_repo, scan_repo or analyze() has raised
Finally ==
    /\ endpoint = "analyze"
    /\ pc \in {"http400", "raised", "arch_raised", "done"}
    /\ ~responded
    /\ workspace' = CleanupClone(workspace, path)
    /\ responded' = TRUE
    /\ UNCHANGED <<disk, listing, run, pc, todo, files, file_contents, frameworks,
                   file_dependencies, call_graph, exact_first, dir_points, scores, layers,
                   databases, architecture, result, prev, endpoint, path,
                   analysis_data, context, scan>>

\* chat_about_repo line 204: context = build_context(analysis_data, question)
ChatContext ==
    /\ endpoint = "chat"
    /\ pc = "request"
    /\ context' = BuildContext(analysis_data)
    /\ pc' = "chat_done"
    /\ UNCHANGED <<disk, listing, run, todo, files, file_contents, frameworks,
                   file_dependencies, call_graph, exact_first, dir_points, scores, layers,
                   databases, architecture, result, prev, endpoint, workspace, path,
                   responded, analysis_data, scan>>

\* _find_brace_end(content, start), as _extract_js_calls (line 1051) and the
\* Java and Go scanners call it
FindBraceEndCall ==
    /\ endpoint = "find_brace_end"
    /\ pc = "request"
    /\ scan' = [scan EXCEPT !.body_end = FindBraceEnd(scan.content, scan.start)]
    /\ pc' = "scanned"
    /\ UNCHANGED <<disk, listing, run, todo, files, file_contents, frameworks,
                   file_dependencies, call_graph, exact_first, dir_points, scores, layers,
                   databases, architecture, result, prev, endpoint, workspace, path,
                   responded, analysis_data, context>>

\* _extract_js_calls lines 1041-1053 for one match of an arrow function
JsArrowSpan ==
    /\ endpoint = "js_arrow_span"
    /\ pc = "request"
    /\ scan' = [scan EXCEPT !.body_end = JsBodyEnd(scan.content, scan.match_end)]
    /\ pc' = "scanned"
    /\ UNCHANGED <<disk, listing, run, todo, files, file_contents, frameworks,
                   file_dependencies, call_graph, exact_first, dir_points, scores, layers,
                   databases, architecture, result, prev, endpoint, workspace, path,
                   responded, analysis_data, context>>

\* line 83: _get_source_files()
GetSources ==
    /\ pc = "start"
    /\ todo' = GetSourceFiles(listing)
    /\ pc' = "extract"
    /\ UNCHANGED <<disk, listing, run, files, file_contents, frameworks,
                   file_dependencies, call_graph, exact_first, dir_points, scores, layers, result, prev,
                   databases, architecture>>
    /\ UNCHANGED reqvars

\* lines 83-88: one iteration of the extraction loop; an exception leaving
\* _analyze_file would end the run
AnalyzeFile ==
    /\ pc = "extract"
    /\ todo /= <<>>
    /\ \E file_path \in {Head(todo)} :
       \E rec \in {FileAt(disk.files, file_path)} :
       \E outcome \in {AnalyzeFileOutcome(rec)} :
          /\ file_contents' = IF outcome = "meta"
                              THEN [p \in DOMAIN file_contents \cup {file_path} |->
                                       IF p = file_path THEN rec ELSE file_contents[p]]
                              ELSE file_contents
          /\ files' = IF outcome = "meta" THEN Append(files, AnalyzeFileMeta(rec)) ELSE files
          /\ pc' = IF outcome = "raise" THEN "raised" ELSE pc
    /\ todo' = Tail(todo)
    /\ UNCHANGED <<disk, listing, run, frameworks, file_dependencies,
                   call_graph, exact_first, dir_points, scores, layers, result, prev,
                   databases, architecture>>
    /\ UNCHANGED reqvars

\* lines 90-101: dependencies, frameworks and databases
DetectStack ==
    /\ pc = "extract"
    /\ todo = <<>>
    /\ frameworks' = DetectFrameworks(disk.npm)
    /\ databases' \in SetOrders(DetectDatabases(disk.npm, disk.pip))
    /\ pc' = "deps"
    /\ UNCHANGED <<disk, listing, run, todo, files, file_contents,
                   file_dependencies, call_graph, exact_first, dir_points, scores, layers,
                   architecture, result, prev>>
    /\ UNCHANGED reqvars

\* line 104; an exception raised inside _build_file_dependencies ends the run
ResolveDependencies ==
    /\ pc = "deps"
    /\ IF BuildFileMapRaises(FilePaths(files))
       THEN /\ pc' = "raised"
            /\ UNCHANGED file_dependencies
       ELSE /\ pc' = "callgraph"
            /\ file_dependencies' = BuildFileDependencies(files)
    /\ UNCHANGED <<disk, listing, run, todo, files, file_contents, frameworks,
                   call_graph, exact_first, dir_points, scores, layers, result, prev,
                   databases, architecture>>
    /\ UNCHANGED reqvars

\* line 107
CallGraph ==
    /\ pc = "callgraph"
    /\ call_graph' = BuildCallGraph(files, file_contents, file_dependencies)
    /\ pc' = "clear"
    /\ UNCHANGED <<disk, listing, run, todo, files, file_contents, frameworks,
                   file_dependencies, exact_first, dir_points, scores, layers, result, prev,
                   databases, architecture>>
    /\ UNCHANGED reqvars

\* analyze() going on to the architecture with the cache still filled
ClearContents_Keep ==
    /\ pc = "clear"
    /\ pc' = "arch"
    /\ UNCHANGED <<disk, listing, run, todo, files, file_contents, frameworks,
                   file_dependencies, call_graph, exact_first, dir_points, scores, layers, result, prev,
                   databases, architecture>>
    /\ UNCHANGED reqvars

\* line 110: self._file_contents.clear()
ClearContents ==
    /\ pc = "clear"
    /\ file_contents' = <<>>
    /\ pc' = "arch"
    /\ UNCHANGED <<disk, listing, run, todo, files, frameworks,
                   file_dependencies, call_graph, exact_first, dir_points, scores, layers, result, prev,
                   databases, architecture>>
    /\ UNCHANGED reqvars

\* lines 113-121: ArchitectureAnalyzer(arch_data).generate()
GenerateArchitecture ==
    /\ pc = "arch"
    /\ \E components \in {IdentifyComponents(files)} :
       \E order \in {ComponentOrder(files)} :
       \E points \in {DirPoints(components)} :
       \E ef \in SUBSET OrderSensitive(points) :
       \E rule_scores \in {RuleScores(components, frameworks, points, ef)} :
       \E classification \in {ClassifyLayers(rule_scores)} :
       \E keys \in {EdgeKeys(FilePaths(files), file_dependencies, components, order)} :
          /\ exact_first' = ef
          /\ dir_points' = points
          /\ scores' = rule_scores
          /\ layers' = classification
          /\ IF DetectEdgesRaises(keys)
             THEN /\ architecture' = [NoArchitecture EXCEPT !.raised = TRUE]
                  /\ pc' = "arch_raised"
             ELSE /\ \E nodes \in {BuildNodes(components, order, classification, databases)} :
                        architecture' = [raised |-> FALSE,
                                         nodes  |-> nodes,
                                         edges  |-> DetectEdges(keys),
                                         layers |-> BuildLayerSummary(nodes)]
                  /\ pc' = "return"
    /\ UNCHANGED <<disk, listing, run, todo, files, file_contents, frameworks,
                   file_dependencies, call_graph, databases, result, prev>>
    /\ UNCHANGED reqvars

\* lines 123-140
Return ==
    /\ pc = "return"
    /\ result' = [returned          |-> TRUE,
                  files             |-> files,
                  file_dependencies |-> file_dependencies,
                  call_graph        |-> call_graph,
                  layers            |-> layers,
                  architecture      |-> architecture]
    /\ pc' = "done"
    /\ UNCHANGED <<disk, listing, run, todo, files, file_contents, frameworks,
                   file_dependencies, call_graph, exact_first, dir_points, scores, layers,
                   databases, architecture, prev>>
    /\ UNCHANGED reqvars

\* a further request over the unchanged tree: CodeAnalyzer(repo_path).analyze()
\* (api/structure.py lines 33-34)
Rerun ==
    /\ pc = "done"
    /\ endpoint = "analyze" => responded
    /\ run < MaxRuns
    /\ path' = None
    /\ responded' = FALSE
    /\ UNCHANGED <<endpoint, workspace, analysis_data, context, scan>>
    /\ run' = run + 1
    /\ prev' = [returned          |-> TRUE,
                files             |-> result.files,
                file_dependencies |-> result.file_dependencies,
                call_graph        |-> result.call_graph,
                layers            |-> result.layers,
                weak_first        |-> exact_first = {}]
    /\ pc' = "request"
    /\ todo' = <<>>
    /\ files' = <<>>
    /\ file_contents' = <<>>
    /\ frameworks' = [frontend |-> {}, backend |-> {}]
    /\ file_dependencies' = <<>>
    /\ call_graph' = <<>>
    /\ exact_first' = {}
    /\ dir_points' = <<>>
    /\ scores' = <<>>
    /\ layers' = <<>>
    /\ databases' = <<>>
    /\ architecture' = NoArchitecture
    /\ result' = NoResult
    /\ UNCHANGED <<disk, listing>>

Next ==
    \/ ValidatePath
    \/ ValidateUrl
    \/ CloneFrom
    \/ CloneFailed
    \/ ScanRepo
    \/ Finally
    \/ ChatContext
    \/ FindBraceEndCall
    \/ JsArrowSpan
    \/ GetSources
    \/ AnalyzeFile
    \/ DetectStack
    \/ ResolveDependencies
    \/ CallGraph
    \/ ClearContents
    \/ GenerateArchitecture
    \/ Return
    \/ Rerun

Spec == Init /\ [][Next]_vars

(***************************************************************************)
(* Properties                                                              *)
(***************************************************************************)
DepsBuilt   == pc \in {"callgraph", "clear", "arch", "return", "done"}
GraphBuilt  == pc \in {"clear", "arch", "return", "done"}
LayersBuilt == pc \in {"return", "done"}

MetaOf(p) == files[CHOOSE i \in 1..Len(files) : files[i].path = p]

AnalyzedPaths == Range(FilePaths(files))

\* c.split('::')[1] of a qualified id: the bare name
AfterSep(c) == Drop(c, Len(BeforeSep(c)) + 2)

\* the registry and resolved dependencies _build_call_graph works with
Registry == FuncRegistry(files)

ResolvedDeps(p) == Range(file_dependencies[p].resolved)

Declares(p, n) == n \in Range(MetaOf(p).functions)

\* a declaration of file p whose span mentions name n
Mentions(p, n) ==
    \E k \in 1..Len(FileAt(disk.files, p).decls) :
        /\ FileAt(disk.files, p).decls[k].listed
        /\ n \in FileAt(disk.files, p).decls[k].calls

\* C1: no Function Node of the call graph lists its own id among its calls,
\* whichever language scanner filled the list.
C1_NoSelfCall ==
    \A q \in DOMAIN call_graph : q \notin call_graph[q].calls

\* a self-recursive function exists for the Python, JS, Java and Go scanners
\* and the graph has been built
C1_Witness ==
    /\ GraphBuilt
    /\ \A ext \in {EXT_PY, <<".", "j", "s">>, EXT_JAVA, EXT_GO} :
          \E p \in AnalyzedPaths :
             /\ MetaOf(p).extension = ext
             /\ \E n \in Range(MetaOf(p).functions) :
                   /\ Len(n) >= 2
                   /\ \E k \in 1..Len(FileAt(disk.files, p).decls) :
                         /\ FileAt(disk.files, p).decls[k].name = n
                         /\ n \in FileAt(disk.files, p).decls[k].calls
                   /\ QualifiedId(p, n) \in DOMAIN call_graph

\* C2: once the call graph is built, B is in A's calls exactly when A is in
\* B's called_by, for all Function Nodes A and B.
C2_EdgesConsistent ==
    GraphBuilt =>
        \A a, b \in DOMAIN call_graph :
            (b \in call_graph[a].calls) <=> (a \in call_graph[b].called_by)

\* the built graph has an edge between functions of two different files
C2_Witness ==
    /\ GraphBuilt
    /\ \E a, b \in DOMAIN call_graph :
          /\ b \in call_graph[a].calls
          /\ call_graph[a].file /= call_graph[b].file
          /\ a \in call_graph[b].called_by

\* the path a relative import names: the rest of the import joined to the
\* importing file's directory, one directory up per '../'; <<>> when the
\* import is not relative or climbs above the root
RECURSIVE UpAndJoin(_, _)
UpAndJoin(dir, imp) ==
    IF StartsWith(imp, <<".", ".", "/">>)
    THEN (IF dir = <<>> THEN <<>>
          ELSE UpAndJoin(SubSeq(dir, 1, Len(dir) - 1), Drop(imp, 3)))
    ELSE IF imp = <<>> THEN <<>>
    ELSE JoinSlash(dir \o <<imp>>)

RelativeTarget(p, imp) ==
    IF StartsWith(imp, <<".", "/">>) /\ Len(imp) > 2
    THEN JoinSlash(DirSegs(p) \o <<Drop(imp, 2)>>)
    ELSE IF StartsWith(imp, <<".", ".", "/">>) THEN UpAndJoin(DirSegs(p), imp)
    ELSE <<>>

IsIndexFile(g) ==
    /\ PathStem(g) \in {<<"i","n","d","e","x">>, <<"_","_","i","n","i","t","_","_">>}
    /\ DirSegs(g) /= <<>>

\* the relative import imp of file p names file g
NamesFile(p, imp, g) ==
    /\ RelativeTarget(p, imp) /= <<>>
    /\ \/ RelativeTarget(p, imp) = g
       \/ RelativeTarget(p, imp) = WithSuffixEmpty(g)
       \/ IsIndexFile(g) /\ RelativeTarget(p, imp) = PathParent(g)

\* C3: an import starting with './' or '../' whose path, joined to the
\* importing file's directory, is g's path, g's path without extension, or
\* the directory of the index file g, puts g in the resolved list and is not
\* in the external list.
C3_RelativeImportResolved ==
    DepsBuilt =>
        \A p \in AnalyzedPaths : \A g \in AnalyzedPaths :
            \A i \in 1..Len(MetaOf(p).imports) :
                NamesFile(p, MetaOf(p).imports[i], g) =>
                    /\ g \in Range(file_dependencies[p].resolved)
                    /\ MetaOf(p).imports[i] \notin Range(file_dependencies[p].external)

\* C4: _build_file_dependencies does not raise, and afterwards every raw
\* import of every file is accounted for exactly once: either the file it
\* resolves to is in the resolved list or the import itself is in the
\* external list.  The entries are compared with the imports in the state
\* _build_file_dependencies leaves (pc = "callgraph"); every file keeps its
\* entry in the states after it.
C4_EveryImportClassified ==
    /\ pc /= "raised"
    /\ DepsBuilt => DOMAIN file_dependencies = AnalyzedPaths
    /\ pc = "callgraph" =>
          \A file_map \in {BuildFileMap(FilePaths(files))} :
              \A k \in 1..Len(files) :
                  \A i \in 1..Len(files[k].imports) :
                      \A g \in {ResolveImport(files[k].imports[i], files[k].path, file_map)} :
                          LET p == files[k].path
                              s == files[k].imports[i]
                              InResolved == g /= None
                                            /\ g \in Range(file_dependencies[p].resolved)
                              InExternal == s \in Range(file_dependencies[p].external)
                          IN  InResolved /= InExternal

\* one file has a resolved import, an unresolved relative import and the
\* dependencies have been built
C4_Witness ==
    /\ DepsBuilt
    /\ \E p \in AnalyzedPaths :
          /\ file_dependencies[p].resolved /= <<>>
          /\ \E s \in Range(file_dependencies[p].external) : StartsWith(s, <<".", "/">>)

\* how every import of every file is classified when self.files is in the
\* given order
Classification(order) ==
    [p \in AnalyzedPaths |->
        [i \in 1..Len(MetaOf(p).imports) |->
            ResolveImport(MetaOf(p).imports[i], p, BuildFileMap(order))]]

\* C5: for a fixed set of analysed files every import is classified the same
\* way and resolved to the same file, whatever order os.walk lists the
\* files in.
C5_OrderIndependent ==
    DepsBuilt =>
        \A order \in WalkOrders(AnalyzedPaths) :
            Classification(order) = Classification(FilePaths(files))

\* C6: a second analyze() over the unchanged tree returns the same set of
\* file records, the same resolved and external edges for every file and
\* the same layer for every component.
C6_Idempotent ==
    (pc = "done" /\ prev.returned) =>
        /\ Range(result.files) = Range(prev.files)
        /\ DOMAIN result.file_dependencies = DOMAIN prev.file_dependencies
        /\ \A p \in DOMAIN result.file_dependencies :
              /\ Range(result.file_dependencies[p].resolved)
                    = Range(prev.file_dependencies[p].resolved)
              /\ Range(result.file_dependencies[p].external)
                    = Range(prev.file_dependencies[p].external)
        /\ result.layers = prev.layers

\* the second run has finished, it iterated a dirs set in another order than
\* the first did, and the tree has resolved and external imports
C6_Witness ==
    /\ pc = "done"
    /\ prev.returned
    /\ prev.weak_first
    /\ exact_first /= {}
    /\ \E p \in AnalyzedPaths :
          file_dependencies[p].resolved /= <<>> /\ file_dependencies[p].external /= <<>>

ImportedDeclarers(p, n) ==
    {g \in ResolvedDeps(p) \cap AnalyzedPaths : Declares(g, n)}

TopScore(row) == CHOOSE m \in Range(row) : \A x \in Range(row) : x <= m

\* C10: every component gets the layer of the rule with the highest score,
\* of the first-declared such rule on a tie, and 'other' when no rule
\* scores above zero.
C10_HighestScoreWins ==
    LayersBuilt =>
        /\ DOMAIN layers = {ComponentId(p) : p \in AnalyzedPaths}
        /\ DOMAIN scores = DOMAIN layers
        /\ \A c \in DOMAIN layers :
              LET top == TopScore(scores[c])
              IN  IF top = 0 THEN layers[c] = "other"
                  ELSE \E r \in 1..Len(LAYER_RULES) :
                          /\ scores[c][r] = top
                          /\ \A k \in 1..(r - 1) : scores[c][k] < top
                          /\ layers[c] = LAYER_RULES[r].name

\* layers are assigned; one component has two rules tied at the top score
\* with a lower-scoring rule declared before them, another has no score
C10_Witness ==
    /\ LayersBuilt
    /\ \E c \in DOMAIN layers :
          /\ Cardinality({r \in 1..Len(LAYER_RULES) :
                             scores[c][r] = TopScore(scores[c])}) >= 2
          /\ TopScore(scores[c]) > 0
    /\ \E c \in DOMAIN layers :
          \E r, k \in 1..Len(LAYER_RULES) :
              k < r /\ scores[c][k] > 0 /\ scores[c][k] < scores[c][r]
    /\ \E c \in DOMAIN layers :
          TopScore(scores[c]) = 0 /\ layers[c] = "other"

\* C11: the layer of every component is the same whatever order the entries
\* of the rules' dirs sets are iterated in.
C11_OrderIndependentLayer ==
    LayersBuilt =>
        \A components \in {IdentifyComponents(files)} :
        \A ef \in SUBSET OrderSensitive(dir_points) :
            ClassifyLayers(RuleScores(components, frameworks, dir_points, ef)) = layers

\* layers are assigned; for one component a rule's dirs add 5 or 10 by the
\* iteration order, this run met the 10-entry first, and another rule
\* scores 10 for the component
C11_Witness ==
    /\ LayersBuilt
    /\ \E c \in DOMAIN layers : \E r, k \in 1..Len(LAYER_RULES) :
          /\ dir_points[c][r] = {5, 10}
          /\ <<c, r>> \in exact_first
          /\ k /= r
          /\ scores[c][k] = 10

\* rule r has an entry that component c equals or is prefixed by
ExactMatch(c, r) == 10 \in dir_points[c][r]

\* C12: a component that equals or is prefixed by a directory name of rule
\* R, holds no file with a frontend extension and matches every other rule
\* at most by a path-segment ending, gets R's layer.
C12_ExactBeatsWeak ==
    LayersBuilt =>
        \A components \in {IdentifyComponents(files)} :
        \A c \in DOMAIN layers : \A r \in 1..Len(LAYER_RULES) :
            (/\ ExactMatch(c, r)
             /\ components[c].extensions \cap FRONTEND_EXTS = {}
             /\ \A k \in 1..Len(LAYER_RULES) : k /= r => ~ExactMatch(c, k))
            => layers[c] = LAYER_RULES[r].name

\* generate() has run its edge detection
EdgesDetected == pc \in {"return", "done"} \/ architecture.raised

\* the (source file, resolved target file) pairs that cross from S to T
CrossingPairs(components, S, T) ==
    {<<f, d>> \in Range(components[S].files) \X Range(components[T].files) :
        d \in ResolvedDeps(f)}

\* C13: once edge detection has run there is exactly one edge for every
\* ordered pair of distinct components joined by a resolved dependency, its
\* weight is the number of crossing (source file, target file) pairs, and
\* there is no other edge, in particular none from a component to itself.
C13_OneEdgePerPair ==
    EdgesDetected =>
        /\ ~architecture.raised
        /\ \A components \in {IdentifyComponents(files)} :
           \A edges \in {architecture.edges} :
              /\ \A S, T \in DOMAIN components :
                    \A pairs \in {CrossingPairs(components, S, T)} :
                    \A E \in {{i \in 1..Len(edges) : edges[i].source = S /\ edges[i].target = T}} :
                       IF S /= T /\ pairs /= {}
                       THEN /\ Cardinality(E) = 1
                            /\ \A i \in E : edges[i].weight = Cardinality(pairs)
                       ELSE E = {}
              /\ \A i \in 1..Len(edges) :
                    /\ edges[i].source \in DOMAIN components
                    /\ edges[i].target \in DOMAIN components

\* C13 with the component ids that hold no "->"
C13_PlainIds ==
    (EdgesDetected /\ \A c \in DOMAIN layers : ~Contains(c, <<"-", ">">>)) =>
        /\ ~architecture.raised
        /\ \A components \in {IdentifyComponents(files)} :
           \A edges \in {architecture.edges} :
              /\ \A S, T \in DOMAIN components :
                    \A pairs \in {CrossingPairs(components, S, T)} :
                    \A E \in {{i \in 1..Len(edges) : edges[i].source = S /\ edges[i].target = T}} :
                       IF S /= T /\ pairs /= {}
                       THEN /\ Cardinality(E) = 1
                            /\ \A i \in E : edges[i].weight = Cardinality(pairs)
                       ELSE E = {}
              /\ \A i \in 1..Len(edges) :
                    /\ edges[i].source \in DOMAIN components
                    /\ edges[i].target \in DOMAIN components

\* an edge of weight two next to an edge of weight one
C13_WeightTwo ==
    /\ pc = "done"
    /\ \E i, j \in 1..Len(architecture.edges) :
          architecture.edges[i].weight = 2 /\ architecture.edges[j].weight = 1

\* positions of the separators of a path
SlashAt(q) == {i \in 1..Len(q) : q[i] = "/"}

\* the component the first one or two segments of path p name
NamedComponent(p) ==
    LET q == ReplaceBackslash(p)
        H == SlashAt(q)
        first  == CHOOSE i \in H : \A j \in H : i <= j
        second == CHOOSE i \in H \ {first} : \A j \in H \ {first} : i <= j
    IN  IF Cardinality(H) >= 2 THEN SubSeq(q, 1, second - 1)
        ELSE IF Cardinality(H) = 1 THEN SubSeq(q, 1, first - 1)
        ELSE <<"(", "r", "o", "o", "t", ")">>

RECURSIVE SumFileCounts(_)
SumFileCounts(nodes) ==
    IF nodes = <<>> THEN 0 ELSE Head(nodes).file_count + SumFileCounts(Tail(nodes))

\* C14: every analysed file is listed by exactly one component, the one its
\* first two segments name (three or more segments), its first segment
\* names (two segments) or '(root)' (one segment); no component lists a file
\* twice or a file that was not analysed, and the file counts of the nodes
\* sum to the number of analysed files.
C14_FilesPartition ==
    LayersBuilt =>
        \A components \in {IdentifyComponents(files)} :
        \A order \in {ComponentOrder(files)} :
            /\ \A p \in AnalyzedPaths : \A named \in {NamedComponent(p)} :
                  /\ {c \in DOMAIN components : p \in Range(components[c].files)} = {named}
                  /\ FileToComponent(p, components, order) = named
            /\ \A c \in DOMAIN components :
                  /\ Range(components[c].files) \subseteq AnalyzedPaths
                  /\ Cardinality(Range(components[c].files)) = Len(components[c].files)
            /\ SumFileCounts(architecture.nodes) = Len(files)

\* a root file, a file one directory deep and a file two directories deep
\* were analysed together
C14_Witness ==
    /\ pc = "done"
    /\ \E p1, p2, p3 \in AnalyzedPaths :
          /\ Cardinality(SlashAt(p1)) = 0
          /\ Cardinality(SlashAt(p2)) = 1
          /\ Cardinality(SlashAt(p3)) = 2

\* position of a layer name in the order the summary must follow
LayerRank ==
    [frontend |-> 1, api |-> 2, middleware |-> 3, services |-> 4, data |-> 5,
     config |-> 6, utils |-> 7, tests |-> 8, other |-> 9]

\* the places <<entry, position>> of the summary that hold node id x
SummaryPlaces(summary, x) ==
    {<<i, j>> \in (1..Len(summary)) \X (1..(Len(files) + Len(databases))) :
        j <= Len(summary[i].nodes) /\ summary[i].nodes[j] = x}

\* C15: the layer summary follows the fixed layer order, has no entry with
\* an empty node list, and holds every node id of the model exactly once,
\* in the entry named after the node's layer.
C15_LayerSummary ==
    LayersBuilt =>
        \A summary \in {architecture.layers} : \A nodes \in {architecture.nodes} :
            /\ \A i \in 1..Len(summary) :
                  /\ summary[i].name \in DOMAIN LayerRank
                  /\ summary[i].nodes /= <<>>
                  /\ \A j \in 1..Len(summary) :
                        i < j => LayerRank[summary[i].name] < LayerRank[summary[j].name]
            /\ \A k \in 1..Len(nodes) :
                  /\ Cardinality(SummaryPlaces(summary, nodes[k].id)) = 1
                  /\ \A pl \in SummaryPlaces(summary, nodes[k].id) :
                        summary[pl[1]].name = nodes[k].layer

\* C15 for the models whose nodes have pairwise different ids
C15_DistinctIds ==
    (LayersBuilt /\ \A k, l \in 1..Len(architecture.nodes) :
                        architecture.nodes[k].id = architecture.nodes[l].id => k = l)
    => \A summary \in {architecture.layers} : \A nodes \in {architecture.nodes} :
            /\ \A i \in 1..Len(summary) :
                  /\ summary[i].name \in DOMAIN LayerRank
                  /\ summary[i].nodes /= <<>>
                  /\ \A j \in 1..Len(summary) :
                        i < j => LayerRank[summary[i].name] < LayerRank[summary[j].name]
            /\ \A k \in 1..Len(nodes) :
                  /\ Cardinality(SummaryPlaces(summary, nodes[k].id)) = 1
                  /\ \A pl \in SummaryPlaces(summary, nodes[k].id) :
                        summary[pl[1]].name = nodes[k].layer

\* the extraction loop of analyze() is over
Extracted == pc \in {"deps", "callgraph", "clear", "arch", "return", "done",
                      "raised", "arch_raised"}

\* the recognised source files of the tree
Recognised == {f \in disk.files : IsSourceFile(f.path)}

\* the recognised source files whose bytes cannot be read
Unreadable == {f \in disk.files : ~f.readable /\ IsSourceFile(f.path)}

\* the recognised source files that are read and do not parse
Unparsable == {f \in disk.files : f.readable /\ ~f.parses /\ IsSourceFile(f.path)}

\* the records the run holds for path p
RecordsOf(p) == {i \in 1..Len(files) : files[i].path = p}

\* C16: a recognised source file whose bytes cannot be read has a record
\* with its size and with empty imports, functions and classes.
C16_UnreadableHasRecord ==
    Extracted =>
        \A f \in Unreadable :
            \E i \in RecordsOf(f.path) :
                /\ files[i].size = f.size
                /\ files[i].imports = <<>>
                /\ files[i].functions = <<>>
                /\ files[i].classes = <<>>

\* C17: a file whose content fails to parse has a record with empty
\* imports, functions and classes and a false has_main, and with its line
\* count and size.
C17_UnparsableRecord ==
    Extracted =>
        \A f \in Unparsable :
            /\ RecordsOf(f.path) /= {}
            /\ \A i \in RecordsOf(f.path) :
                  /\ files[i].imports = <<>>
                  /\ files[i].functions = <<>>
                  /\ files[i].classes = <<>>
                  /\ files[i].has_main = FALSE
                  /\ files[i].lines = f.lines
                  /\ files[i].size = f.size

\* a run returned with a file that does not parse although its text holds
\* imports, a class, a function and the main marker
C17_Witness ==
    /\ pc = "done"
    /\ \E f \in Unparsable :
          /\ f.imports /= <<>> /\ f.decls /= <<>> /\ f.classes /= <<>> /\ f.main_text
          /\ RecordsOf(f.path) /= {}

\* some file of the tree fails to read or to parse
HasFailure == Unreadable \cup Unparsable /= {}

\* C18: a run over a tree with failing files never ends in an exception,
\* and when it returns, every readable recognised file has a record (with
\* its imports and functions when it parses), an entry of the dependency
\* graph whose resolved targets are recorded files, and a call-graph node
\* for each of its functions that holds a target for every registered
\* name the function calls.
C18_FailuresStayLocal ==
    /\ HasFailure => pc \notin {"raised", "arch_raised"}
    /\ (HasFailure /\ pc = "done") =>
          \A f \in Recognised :
              f.readable =>
                  /\ \E i \in 1..Len(result.files) :
                        /\ result.files[i].path = f.path
                        /\ f.parses => /\ result.files[i].imports = f.imports
                                       /\ result.files[i].functions = ListedNames(f.decls)
                  /\ f.path \in DOMAIN result.file_dependencies
                  /\ Range(result.file_dependencies[f.path].resolved)
                        \subseteq {result.files[i].path : i \in 1..Len(result.files)}
                  /\ f.parses =>
                        /\ Range(result.file_dependencies[f.path].external)
                              \subseteq Range(f.imports)
                        /\ (Range(f.imports) \ Range(result.file_dependencies[f.path].external) /= {})
                              => result.file_dependencies[f.path].resolved /= <<>>
                        /\ \A k \in 1..Len(f.decls) :
                              /\ QualifiedId(f.path, f.decls[k].name) \in DOMAIN result.call_graph
                              /\ \A n \in f.decls[k].calls :
                                    (n /= f.decls[k].name /\ n \in DOMAIN FuncRegistry(result.files))
                                    => \E target \in result.call_graph[QualifiedId(f.path, f.decls[k].name)].calls :
                                          AfterSep(target) = n

\* a run returned although a file could not be read or did not parse, and
\* another file has a resolved import and a resolved call
C18_Witness ==
    /\ pc = "done"
    /\ \E f, h \in Recognised :
          /\ ~f.readable \/ ~f.parses
          /\ h.readable /\ h.parses
          /\ result.file_dependencies[h.path].resolved /= <<>>
          /\ \E k \in 1..Len(h.decls) :
                result.call_graph[QualifiedId(h.path, h.decls[k].name)].calls /= {}

\* C19: for a root path that does not exist the request ends in the 404
\* error; no walk, extraction or resolution happens and no analysis is
\* returned.
C19_MissingRootFails ==
    (endpoint = "structure" /\ ~disk.exists) =>
        /\ pc \in {"request", "http404"}
        /\ todo = <<>>
        /\ files = <<>>
        /\ file_contents = <<>>
        /\ file_dependencies = <<>>
        /\ call_graph = <<>>
        /\ architecture = NoArchitecture
        /\ result = NoResult

\* the request for a missing root was answered
C19_Witness == endpoint = "structure" /\ ~disk.exists /\ pc = "http404"

\* C20: a function name declared n times, in different files or several
\* times in one file, has n nodes of that bare name in the call graph.
C20_NodePerDeclaration ==
    GraphBuilt =>
        \A all \in {AllFunctions(files)} :
        \A n \in {all[i].name : i \in 1..Len(all)} :
            Cardinality({q \in DOMAIN call_graph : call_graph[q].name = n})
                = Cardinality({i \in 1..Len(all) : all[i].name = n})

\* C20 for the names no file declares twice
C20_DistinctInFile ==
    GraphBuilt =>
        \A all \in {AllFunctions(files)} :
        \A n \in {all[i].name : i \in 1..Len(all)} :
            (\A i, j \in 1..Len(all) :
                (all[i].name = n /\ all[j].name = n /\ all[i].file = all[j].file) => i = j)
            => Cardinality({q \in DOMAIN call_graph : call_graph[q].name = n})
                  = Cardinality({i \in 1..Len(all) : all[i].name = n})

C21_WitnessReturned ==
    /\ endpoint = "analyze"
    /\ responded
    /\ result.returned
    /\ path = RepoPath(run)
    /\ run = MaxRuns

\* a clone has failed and left its partial directory for the except clause
C21_WitnessPartialClone ==
    /\ pc = "clone_failed"
    /\ RepoPath(run) \in workspace

(***************************************************************************)
(* The chat context is not bounded                                         *)
(***************************************************************************)
\* C22: the string build_context returns is never longer than
\* MAX_CONTEXT_CHARS characters.
C22_ContextBounded ==
    (endpoint = "chat" /\ pc = "chat_done") => context <= MAX_CONTEXT_CHARS

(***************************************************************************)
(* The phases of analyze() are separated by barriers                       *)
(***************************************************************************)
\* the paths of the files the extraction loop can record
Extractable == {f.path : f \in {g \in disk.files : g.readable /\ IsSourceFile(g.path)}}

\* C23: dependency edges exist only when the extraction loop is over and
\* every file has its record, and every import was resolved against the
\* lookup table that holds the keys of every file; call-graph nodes exist
\* only when every file has its dependency entry, and every call was
\* resolved against the registry that holds every declared function.
C23_PhaseBarriers ==
    /\ file_dependencies /= <<>> =>
          /\ todo = <<>>
          /\ pc \in {"callgraph", "clear", "arch", "return", "done", "arch_raised"}
          /\ AnalyzedPaths = Extractable
    /\ pc = "callgraph" =>
          \A file_map \in {BuildFileMap(FilePaths(files))} :
             \A k \in 1..Len(files) :
                /\ MainKeys(files[k].path) \cup AliasKeys(files[k].path)
                      \subseteq DOMAIN file_map
                /\ file_dependencies[files[k].path] = FileDeps(files[k], file_map)
    /\ call_graph /= <<>> =>
          /\ pc \in {"clear", "arch", "return", "done", "arch_raised"}
          /\ DOMAIN file_dependencies = AnalyzedPaths
    /\ pc = "clear" =>
          \A func_registry \in {FuncRegistry(files)} :
             /\ \A k \in 1..Len(files) :
                   \A i \in 1..Len(files[k].functions) :
                      QualifiedId(files[k].path, files[k].functions[i])
                         \in Range(func_registry[files[k].functions[i]])
             /\ \A q \in DOMAIN call_graph :
                   call_graph[q].calls =
                      ForwardCalls(q, files, file_contents, file_dependencies, func_registry)

\* the call graph has just been built; a file imports a file that was
\* extracted after it, and a function calls a function of such a file
C23_Witness ==
    /\ pc = "clear"
    /\ \E k \in 1..Len(files) :
          \E j \in (k + 1)..Len(files) :
             /\ files[j].path \in Range(file_dependencies[files[k].path].resolved)
             /\ \E q \in DOMAIN call_graph :
                   /\ call_graph[q].file = files[k].path
                   /\ \E t \in call_graph[q].calls : call_graph[t].file = files[j].path

(***************************************************************************)
(* The content cache lives from extraction to the end of the call graph    *)
(***************************************************************************)
\* C24: from the end of the extraction loop until the call graph is built
\* the cache holds the content of every file that has a record; once the
\* call graph is built and before the architecture is generated the cache
\* is emptied, and it is empty whenever analyze() has returned.
C24_CacheScoped ==
    /\ pc \in {"deps", "callgraph", "clear"} =>
          /\ AnalyzedPaths \subseteq DOMAIN file_contents
          /\ \A p \in AnalyzedPaths : file_contents[p] = FileAt(disk.files, p)
    /\ pc \in {"arch", "return", "done", "arch_raised"} => file_contents = <<>>
    /\ result.returned => file_contents = <<>>
    /\ architecture /= NoArchitecture => file_contents = <<>>

\* analyze() has returned a call graph with an edge, found in cached content
C24_Witness ==
    /\ result.returned
    /\ Len(files) >= 2
    /\ \E q \in DOMAIN call_graph : call_graph[q].calls /= {}
    /\ file_contents = <<>>

\* the call graph is about to be built from two or more cached contents
C24_WitnessFilled ==
    /\ pc = "callgraph"
    /\ Cardinality(DOMAIN file_contents) >= 2

(***************************************************************************)
(* Call targets with one-character names                                   *)
(***************************************************************************)
\* C25: no Function Node's calls list holds a function whose bare name is
\* shorter than two characters, whatever the language of the caller.
C25_NoShortTargets ==
    GraphBuilt =>
        \A q \in DOMAIN call_graph :
            \A t \in call_graph[q].calls : Len(call_graph[t].name) >= 2

\* C25 for the callers of the JS/TS, Java and Go scanners
C25_NoShortTargetsOutsidePython ==
    GraphBuilt =>
        \A q \in DOMAIN call_graph :
            PathSuffix(call_graph[q].file) /= EXT_PY =>
                \A t \in call_graph[q].calls : Len(call_graph[t].name) >= 2

\* a JS/TS, Java or Go function mentions a registered one-character name
C25_WitnessOutsidePython ==
    /\ GraphBuilt
    /\ \E k \in 1..Len(files) :
          /\ files[k].extension /= EXT_PY
          /\ \E n \in DOMAIN Registry : Len(n) < 2 /\ Mentions(files[k].path, n)

(***************************************************************************)
(* The source-root alias                                                   *)
(***************************************************************************)
\* the two spellings of file g under the alias: '@/' in place of 'src/',
\* with and without the extension
AliasSpellings(g) ==
    IF StartsWith(g, <<"s","r","c","/">>)
    THEN {<<"@", "/">> \o Drop(g, 4), <<"@", "/">> \o Drop(WithSuffixEmpty(g), 4)}
    ELSE {}

\* C26: an import written with '@/' in place of the 'src/' prefix of an
\* analysed file, with or without the file's extension, is resolved to
\* that file.
C26_AliasHonoured ==
    DepsBuilt =>
        \A k \in 1..Len(files) :
            \A i \in 1..Len(files[k].imports) :
                \A g \in AnalyzedPaths :
                    files[k].imports[i] \in AliasSpellings(g) =>
                        g \in Range(file_dependencies[files[k].path].resolved)

\* C26 turned around: whatever the tree, an import that starts with '@/'
\* is classified external
C26_AliasIsExternal ==
    DepsBuilt =>
        \A k \in 1..Len(files) :
            \A i \in 1..Len(files[k].imports) :
                StartsWith(files[k].imports[i], <<"@", "/">>) =>
                    files[k].imports[i] \in Range(file_dependencies[files[k].path].external)

\* a file imports an analysed file of src/ through the alias
C26_WitnessAliasImport ==
    /\ DepsBuilt
    /\ \E k \in 1..Len(files) :
          \E i \in 1..Len(files[k].imports) :
             \E g \in AnalyzedPaths : files[k].imports[i] \in AliasSpellings(g)

(***************************************************************************)
(* The points of a layer rule, by kind                                     *)
(***************************************************************************)
\* the entry, lowercased, names the component exactly or is a directory
\* prefix of it (line 154)
IsExactOrPrefix(comp_lower, d_lower) ==
    comp_lower = d_lower \/ StartsWith(comp_lower, d_lower \o <<"/">>)

\* the entry, lowercased, matches the component by a path segment only
\* (line 157)
IsSegmentEnding(comp_lower, d_lower) ==
    /\ ~IsExactOrPrefix(comp_lower, d_lower)
    /\ \/ Contains(comp_lower, <<"/">> \o d_lower)
       \/ EndsWith(comp_lower, <<"/">> \o LastSegment(d_lower))

\* <<kind, points>> for what one rule adds to the score of one component;
\* matched holds the points its dirs added (dir_points), and no entry of dirs
\* is looked at when none added any
RuleAwards(comp_lower, comp_data, rule, matched, all_fw) ==
    (IF matched = {} THEN {}
     ELSE UNION {{<<IF IsExactOrPrefix(comp_lower, d_lower) THEN "exact"
                   ELSE IF IsSegmentEnding(comp_lower, d_lower) THEN "segment"
                   ELSE "none",
                   DirMatch(comp_lower, d)>> : d_lower \in {Lower(d)}} :
                d \in rule.dirs})
    \cup {<<"extension", ExtensionPoints(rule, comp_data)>>,
          <<"framework", FrameworkPoints(rule, comp_data, all_fw)>>}

\* RuleAwards of every rule for every component
Awards(components, all_fw) ==
    UNION {UNION {UNION {RuleAwards(comp_lower, components[c], LAYER_RULES[r],
                                    dir_points[c][r], all_fw) :
                            r \in 1..Len(LAYER_RULES)} :
                     comp_lower \in {ReplaceBackslash(Lower(c))}} :
              c \in DOMAIN components}

\* the points of each kind that the rules add for the components of the
\* analysed tree
AwardedPoints ==
    LET Of(awards, kind) == {a[2] : a \in {x \in awards : x[1] = kind /\ x[2] /= 0}}
    IN  CHOOSE pts \in
            {[exact     |-> Of(awards, "exact"),
              segment   |-> Of(awards, "segment"),
              extension |-> Of(awards, "extension"),
              framework |-> Of(awards, "framework")] :
                awards \in {Awards(components, frameworks.frontend \cup frameworks.backend) :
                               components \in {IdentifyComponents(files)}}} : TRUE

\* every amount of A exceeds every amount of B
Exceeds(A, B) == \A a \in A : \A b \in B : a > b

\* C27 as stated: an exact or prefix directory-name match adds more than a
\* path-segment-ending match, which adds more than an extension match,
\* which adds more than a framework association.
C27_PointsOrdered ==
    pc = "return" =>
        \A pts \in {AwardedPoints} :
            /\ Exceeds(pts.exact, pts.segment)
            /\ Exceeds(pts.segment, pts.extension)
            /\ Exceeds(pts.extension, pts.framework)

\* C27 amended: an exact or prefix directory-name match adds more than a
\* framework association, which adds more than a path-segment-ending
\* match, which adds more than an extension match.
C27_PointsOrderedAmended ==
    pc = "return" =>
        \A pts \in {AwardedPoints} :
            /\ Exceeds(pts.exact, pts.framework)
            /\ Exceeds(pts.exact, pts.segment)
            /\ Exceeds(pts.exact, pts.extension)
            /\ Exceeds(pts.framework, pts.segment)
            /\ Exceeds(pts.framework, pts.extension)
            /\ Exceeds(pts.segment, pts.extension)

\* one analysed tree earns points of all four kinds
C27_Witness ==
    /\ pc = "return"
    /\ \A pts \in {AwardedPoints} :
          /\ pts.exact /= {}
          /\ pts.segment /= {}
          /\ pts.extension /= {}
          /\ pts.framework /= {}

(***************************************************************************)
(* Relative imports resolve inside the importing directory only            *)
(***************************************************************************)
IsRelative(imp) == StartsWith(imp, <<".", "/">>) \/ StartsWith(imp, <<".", ".", "/">>)

\* C28: whenever an import starting with './' or '../' is resolved, the
\* file it is resolved to is the one its path names from the importing
\* file's directory (as the file itself, without its extension, or as the
\* index file of the named directory).
C28_RelativeStaysLocal ==
    pc = "callgraph" =>
        \A file_map \in {BuildFileMap(FilePaths(files))} :
            \A k \in 1..Len(files) :
                \A i \in 1..Len(files[k].imports) :
                    \A g \in {ResolveImport(files[k].imports[i], files[k].path, file_map)} :
                        (IsRelative(files[k].imports[i]) /\ g /= None) =>
                            /\ g \in Range(file_dependencies[files[k].path].resolved)
                            /\ NamesFile(files[k].path, files[k].imports[i], g)

\* a relative import is resolved to the file it names
C28_WitnessLocal ==
    /\ pc = "callgraph"
    /\ \E k \in 1..Len(files) :
          \E i \in 1..Len(files[k].imports) :
             \E g \in Range(file_dependencies[files[k].path].resolved) :
                /\ IsRelative(files[k].imports[i])
                /\ NamesFile(files[k].path, files[k].imports[i], g)

\* the index just past the "}" that closes the "{" at start, read as a
\* JavaScript lexer reads the content: inside a literal a backslash takes the
\* next character with it, and only the opening quote character closes it
RECURSIVE LexBraceEnd(_, _, _, _)
LexBraceEnd(content, i, depth, quote) ==
    IF ~(i < Len(content)) THEN Len(content)
    ELSE LET char == At(content, i)
         IN  IF quote /= NoQuote
             THEN IF char = "\\" THEN LexBraceEnd(content, i + 2, depth, quote)
                  ELSE IF char = quote THEN LexBraceEnd(content, i + 1, depth, NoQuote)
                  ELSE LexBraceEnd(content, i + 1, depth, quote)
             ELSE IF char \in QuoteChars THEN LexBraceEnd(content, i + 1, depth, char)
             ELSE IF char = "{" THEN LexBraceEnd(content, i + 1, depth + 1, quote)
             ELSE IF char = "}"
             THEN (IF depth = 1 THEN i + 1
                   ELSE LexBraceEnd(content, i + 1, depth - 1, quote))
             ELSE LexBraceEnd(content, i + 1, depth, quote)

ClosingBraceEnd(content, start) == LexBraceEnd(content, start, 0, NoQuote)

\* some literal of the content ends in an escaped backslash
EndsInEscapedBackslash(content) ==
    \E i \in 0..(Len(content) - 3) :
        /\ At(content, i) = "\\"
        /\ At(content, i + 1) = "\\"
        /\ At(content, i + 2) \in QuoteChars

\* C29: _find_brace_end(content, start) with content[start] = "{" returns the
\* index just past the "}" that closes that brace, counting only the braces
\* outside string literals (escaped quotes and escaped backslashes included),
\* and len(content) when nothing closes it.
C29_BraceEndMatches ==
    (endpoint = "find_brace_end" /\ pc = "scanned")
        => scan.body_end = ClosingBraceEnd(scan.content, scan.start)

\* C29, the part that holds: the same for contents without a literal that
\* ends in an escaped backslash.
C29_BraceEndMatchesPlainLiterals ==
    (endpoint = "find_brace_end" /\ pc = "scanned"
     /\ ~EndsInEscapedBackslash(scan.content))
        => scan.body_end = ClosingBraceEnd(scan.content, scan.start)

\* C29, termination: every scan returns an index past start and within the
\* content.
C29_BraceEndInRange ==
    (endpoint = "find_brace_end" /\ pc = "scanned")
        => scan.body_end \in (scan.start + 1)..Len(scan.content)

\* a scan over a literal with an escaped quote and a brace in it, closed later
C29_WitnessEscapedQuote ==
    /\ endpoint = "find_brace_end"
    /\ pc = "scanned"
    /\ scan.content = <<"{", Double, "\\", Double, "}", Double, "}", "a">>
    /\ scan.body_end = 7

\* the number of "(" minus the number of ")" in content[from:i]
ParenDepthAt(content, from, i) ==
    Cardinality({k \in from..(i - 1) : At(content, k) = "("})
        - Cardinality({k \in from..(i - 1) : At(content, k) = ")"})

\* content[i] is a line break whose next line starts, after blanks, with a
\* character that does not continue the expression
NonContinuationBreak(content, i) ==
    /\ At(content, i) = "\n"
    /\ \E j \in (i + 1)..(Len(content) - 1) :
           /\ \A k \in (i + 1)..(j - 1) : At(content, k) \in {" ", "\t"}
           /\ At(content, j) \notin {" ", "\t"}
           /\ At(content, j) \notin {".", "?", ":", "&", "|"}

\* the first ";" or non-continuation line break at parenthesis depth zero
\* from index from on, len(content) when there is none
StatementEnd(content, from) ==
    LET ends == {i \in from..(Len(content) - 1) :
                    /\ ParenDepthAt(content, from, i) = 0
                    /\ At(content, i) = ";" \/ NonContinuationBreak(content, i)}
    IN  IF ends = {} THEN Len(content)
        ELSE CHOOSE i \in ends : \A k \in ends : i <= k

\* content[from:to] holds no brace
NoBraces(content, from, to) ==
    \A k \in from..(to - 1) : At(content, k) \notin {"{", "}"}

\* C30: the scanned span of an arrow function whose body has no braces ends
\* at the first ";" or the first non-continuation line break at parenthesis
\* depth zero after the arrow.
C30_ArrowSpanEnds ==
    (endpoint = "js_arrow_span" /\ pc = "scanned"
     /\ NoBraces(scan.content, scan.match_end,
                 StatementEnd(scan.content, scan.match_end)))
        => scan.body_end = StatementEnd(scan.content, scan.match_end)

\* C30, the part that holds: the same when no "{" follows anywhere in the
\* content.
C30_ArrowSpanEndsNoBraceAfter ==
    (endpoint = "js_arrow_span" /\ pc = "scanned"
     /\ NoBraces(scan.content, scan.match_end, Len(scan.content)))
        => scan.body_end = StatementEnd(scan.content, scan.match_end)

\* an arrow body that goes on after a line break with a continuation line,
\* and ends at the ";"
C30_WitnessContinuation ==
    /\ endpoint = "js_arrow_span"
    /\ pc = "scanned"
    /\ scan.content = ArrowHead \o <<"\n", ".", ";">>
    /\ scan.body_end = Len(ArrowHead) + 2

====
